---------------------------- MODULE Spec2Model ----------------------------
(***************************************************************************)
(* A model of the ray-tracer kernel of judy2k/ray-tracer-challenge-2:      *)
(* f64 arithmetic, Tuple / Point / Vector, Matrix, Ray, Sphere / Shape,    *)
(* Intersections (a BinaryHeap with a reversed comparator) and the Phong   *)
(* lighting of Material.                                                   *)
(*                                                                         *)
(* An f64 is modelled as an exact rational [n, d] in lowest terms with     *)
(* d > 0, extended with the IEEE-754 special values the code can produce:  *)
(* negative zero (0 / -1), the infinities (1 / 0 and -1 / 0) and NaN       *)
(* (0 / 0).  Rounding of the 53-bit mantissa is not modelled; sqrt is      *)
(* exact on perfect squares and rounded down to a multiple of 1 / SqrtDen  *)
(* otherwise.                                                              *)
(***************************************************************************)
EXTENDS Integers, Sequences, FiniteSets, TLC

(***************************************************************************)
(* f64                                                                     *)
(***************************************************************************)
\* let x = v; F(x): v is computed once, before the body that names it
Bind(v, F(_)) == CHOOSE r \in {F(x) : x \in {v}} : TRUE

Abs(i) == IF i < 0 THEN -i ELSE i

RECURSIVE Gcd(_, _)
Gcd(a, b) == IF b = 0 THEN a ELSE Gcd(b, a % b)

\* n / d in lowest terms, d # 0
Q(n, d) ==
    LET g == Gcd(Abs(n), Abs(d))
        s == IF d < 0 THEN -1 ELSE 1
    IN  [n |-> s * (n \div g), d |-> s * (d \div g)]

I(i) == [n |-> i, d |-> 1]

Zero == [n |-> 0, d |-> 1]
NegZero == [n |-> 0, d |-> -1]
NaN == [n |-> 0, d |-> 0]
Inf == [n |-> 1, d |-> 0]
NegInf == [n |-> -1, d |-> 0]
One == [n |-> 1, d |-> 1]
Two == [n |-> 2, d |-> 1]

IsNaN(x) == x.n = 0 /\ x.d = 0
IsInf(x) == x.n # 0 /\ x.d = 0
IsZero(x) == x.n = 0 /\ x.d # 0
IsFinite(x) == x.d # 0
\* the sign bit (of a NaN: not modelled, reported clear)
SignNeg(x) == x.n < 0 \/ (x.n = 0 /\ x.d < 0)
MkZero(neg) == IF neg THEN NegZero ELSE Zero
MkInf(neg) == IF neg THEN NegInf ELSE Inf

\* f64::is_sign_positive
IsSignPositive(x) == ~SignNeg(x)

\* unary minus
FNeg(x) ==
    IF IsNaN(x) THEN NaN
    ELSE IF IsZero(x) THEN MkZero(~SignNeg(x))
    ELSE [n |-> -x.n, d |-> x.d]

\* a + b
FAdd(a, b) ==
    IF a.d # 0 /\ b.d # 0
    THEN IF a.n = 0 /\ b.n = 0 THEN MkZero(SignNeg(a) /\ SignNeg(b))
         ELSE IF a.n = 0 THEN b
         ELSE IF b.n = 0 THEN a
         ELSE IF a.d = 1 /\ b.d = 1
              THEN (IF a.n + b.n = 0 THEN Zero ELSE [n |-> a.n + b.n, d |-> 1])
         ELSE LET g == Gcd(a.d, b.d)
                  n == a.n * (b.d \div g) + b.n * (a.d \div g)
                  d == a.d * (b.d \div g)
              IN  IF n = 0 THEN Zero ELSE Q(n, d)
    ELSE IF IsNaN(a) \/ IsNaN(b) THEN NaN
    ELSE IF IsInf(a) THEN (IF IsInf(b) /\ a.n # b.n THEN NaN ELSE a)
    ELSE b

\* a - b
FSub(a, b) == FAdd(a, FNeg(b))

\* a * b
FMul(a, b) ==
    IF a.d # 0 /\ b.d # 0
    THEN IF a.n = 0 \/ b.n = 0 THEN MkZero(SignNeg(a) # SignNeg(b))
         ELSE IF a.d = 1 /\ b.d = 1 THEN [n |-> a.n * b.n, d |-> 1]
         ELSE LET g1 == Gcd(Abs(a.n), b.d)
                  g2 == Gcd(Abs(b.n), a.d)
              IN  [n |-> (a.n \div g1) * (b.n \div g2),
                   d |-> (a.d \div g2) * (b.d \div g1)]
    ELSE IF IsNaN(a) \/ IsNaN(b) THEN NaN
    ELSE IF IsZero(a) \/ IsZero(b) THEN NaN
    ELSE MkInf(SignNeg(a) # SignNeg(b))

\* a / b
FDiv(a, b) ==
    IF IsNaN(a) \/ IsNaN(b) THEN NaN
    ELSE IF IsInf(a)
         THEN (IF IsInf(b) THEN NaN ELSE MkInf(SignNeg(a) # SignNeg(b)))
    ELSE IF IsInf(b) THEN MkZero(SignNeg(a) # SignNeg(b))
    ELSE IF IsZero(b)
         THEN (IF IsZero(a) THEN NaN ELSE MkInf(SignNeg(a) # SignNeg(b)))
    ELSE IF IsZero(a) THEN MkZero(SignNeg(a) # SignNeg(b))
    ELSE FMul(a, [n |-> (IF b.n < 0 THEN -b.d ELSE b.d), d |-> Abs(b.n)])

\* a < b, a == b, a <= b, a >= b, a != b (every comparison with a NaN is false,
\* but != which is true)
FLt(a, b) ==
    /\ ~IsNaN(a)
    /\ ~IsNaN(b)
    /\ IF IsInf(a) \/ IsInf(b)
       THEN (a = NegInf /\ b # NegInf) \/ (b = Inf /\ a # Inf)
       ELSE LET g == Gcd(Abs(a.d), Abs(b.d))
            IN  a.n * (Abs(b.d) \div g) < b.n * (Abs(a.d) \div g)

\* (the finite values are in lowest terms, and -0.0 == 0.0)
FEq(a, b) ==
    /\ ~IsNaN(a)
    /\ ~IsNaN(b)
    /\ IF IsInf(a) \/ IsInf(b)
       THEN a = b
       ELSE a.n = b.n /\ Abs(a.d) = Abs(b.d)

FLe(a, b) == FLt(a, b) \/ FEq(a, b)
FGe(a, b) == FLe(b, a)
FNe(a, b) == ~FEq(a, b)

\* f64::abs
FAbs(x) ==
    IF IsNaN(x) THEN NaN
    ELSE IF IsZero(x) THEN Zero
    ELSE [n |-> Abs(x.n), d |-> x.d]

\* floor of the square root of a natural number
RECURSIVE ISqrtIn(_, _, _)
ISqrtIn(v, lo, hi) ==
    IF lo >= hi THEN lo
    ELSE LET mid == (lo + hi + 1) \div 2
         IN  IF mid * mid <= v THEN ISqrtIn(v, mid, hi)
             ELSE ISqrtIn(v, lo, mid - 1)

ISqrt(v) == ISqrtIn(v, 0, IF v < 46340 THEN v ELSE 46340)

IsSquare(v) == ISqrt(v) * ISqrt(v) = v

\* the precision of an inexact square root
SqrtDen == 1000

\* f64::sqrt
FSqrt(x) ==
    IF IsNaN(x) THEN NaN
    ELSE IF IsZero(x) THEN x
    ELSE IF SignNeg(x) THEN NaN
    ELSE IF IsInf(x) THEN Inf
    ELSE IF IsSquare(x.n) /\ IsSquare(x.d) THEN [n |-> ISqrt(x.n), d |-> ISqrt(x.d)]
    ELSE Q(ISqrt((x.n * SqrtDen * SqrtDen) \div x.d), SqrtDen)


\* the precision of a power
PowDen == 10000

\* x^k in units of 1 / PowDen, x given in the same units, by squaring, rounded down
\* at each step
RECURSIVE PowFixed(_, _)
PowFixed(x, k) ==
    IF k = 0 THEN PowDen
    ELSE Bind(PowFixed(x, k \div 2), LAMBDA h :
            IF k % 2 = 0 THEN (h * h) \div PowDen
            ELSE (((h * h) \div PowDen) * x) \div PowDen)

\* a finite x > 0, in units of 1 / PowDen, rounded down (a long fraction is cut to
\* a shorter one first)
ToFixed(x) ==
    LET k == (IF x.n > x.d THEN x.n ELSE x.d) \div (10 * PowDen) + 1
    IN  ((x.n \div k) * PowDen) \div (x.d \div k)

\* a finite x > 0
PowfPositive(x, y) == Q(PowFixed(ToFixed(x), y.n), PowDen)

\* f64::powf, for an exponent that is a whole number >= 0
FPowf(x, y) ==
    IF IsZero(y) \/ x = One THEN One
    ELSE IF IsNaN(x) \/ IsNaN(y) THEN NaN
    ELSE IF IsInf(x) THEN (IF SignNeg(x) /\ y.n % 2 = 0 THEN Inf ELSE x)
    ELSE IF IsZero(x) THEN (IF y.n % 2 = 0 THEN Zero ELSE x)
    ELSE IF SignNeg(x) THEN FMul(IF y.n % 2 = 0 THEN One ELSE I(-1), PowfPositive(FNeg(x), y))
    ELSE PowfPositive(x, y)

\* the sum of f(lo), ..., f(hi - 1), added left to right from 0.0
RECURSIVE SumRange(_, _, _)
SumRange(f(_), lo, hi) ==
    IF hi <= lo THEN Zero ELSE FAdd(SumRange(f, lo, hi - 1), f(hi - 1))

\* the Vec of f(1), ..., f(n), each value computed once, in order
RECURSIVE Collect(_, _)
Collect(f(_), n) == IF n = 0 THEN << >> ELSE Append(Collect(f, n - 1), f(n))

\* the outcome of a call: a value, or a panic that unwinds out of the call
Ok(v) == [panicked |-> FALSE, v |-> v]
Panic == [panicked |-> TRUE]

(***************************************************************************)
(* lib.rs                                                                  *)
(***************************************************************************)
EPSILON == [n |-> 1, d |-> 100000]

approx_equal(a, b) == FLt(FAbs(FSub(a, b)), EPSILON)

(***************************************************************************)
(* space.rs: Tuple, Point, Vector                                          *)
(***************************************************************************)
TupleNew(x, y, z, w) == [x |-> x, y |-> y, z |-> z, w |-> w]

PointNew(x, y, z) == TupleNew(x, y, z, One)

VectorNew(x, y, z) == TupleNew(x, y, z, Zero)

\* impl From<Tuple> for Point
PointFromTuple(t) == t

\* impl From<Tuple> for Vector
VectorFromTuple(t) == [t EXCEPT !.w = Zero]

TupleGet(t, index) ==
    CASE index = 0 -> t.x
      [] index = 1 -> t.y
      [] index = 2 -> t.z
      [] index = 3 -> t.w

\* Tuple::is_point
is_point(t) == approx_equal(t.w, One)

\* Tuple::is_vector
is_vector(t) == approx_equal(t.w, Zero)

TupleEq(a, b) ==
    /\ approx_equal(a.x, b.x)
    /\ approx_equal(a.y, b.y)
    /\ approx_equal(a.z, b.z)
    /\ approx_equal(a.w, b.w)

TupleAdd(a, b) ==
    [x |-> FAdd(a.x, b.x), y |-> FAdd(a.y, b.y), z |-> FAdd(a.z, b.z), w |-> FAdd(a.w, b.w)]

\* a faulty difference: b - a
TupleSubReversed(a, b) ==
    [x |-> FSub(b.x, a.x), y |-> FSub(b.y, a.y), z |-> FSub(b.z, a.z), w |-> FSub(b.w, a.w)]

TupleSub(a, b) ==
    [x |-> FSub(a.x, b.x), y |-> FSub(a.y, b.y), z |-> FSub(a.z, b.z), w |-> FSub(a.w, b.w)]

TupleNeg(a) ==
    [x |-> FNeg(a.x), y |-> FNeg(a.y), z |-> FNeg(a.z), w |-> FNeg(a.w)]

TupleMul(a, rhs) ==
    [x |-> FMul(a.x, rhs), y |-> FMul(a.y, rhs), z |-> FMul(a.z, rhs), w |-> FMul(a.w, rhs)]

TupleDiv(a, rhs) ==
    [x |-> FDiv(a.x, rhs), y |-> FDiv(a.y, rhs), z |-> FDiv(a.z, rhs), w |-> FDiv(a.w, rhs)]

\* a faulty Point + Vector: the point itself
PointAddVectorDropped(p, rhs) == p

\* impl Add<Vector> for Point, impl Add<&Vector> for &Point
PointAddVector(p, rhs) == TupleAdd(p, rhs)

\* impl Sub<Point> for Point, impl Sub<&Point> for &Point
PointSubPoint(p, rhs) == TupleSub(p, rhs)

\* impl Sub<Vector> for Point, impl Sub<&Vector> for &Point
PointSubVector(p, rhs) == TupleSub(p, rhs)

\* impl Add<Vector> for Vector, impl Add<&Vector> for &Vector
VectorAdd(v, rhs) == TupleAdd(v, rhs)

\* impl Sub<Vector> for Vector, impl Sub<&Vector> for &Vector
VectorSub(v, rhs) == TupleSub(v, rhs)

\* impl Mul<f64> for Vector, impl Mul<f64> for &Vector
VectorMul(v, rhs) == TupleMul(v, rhs)

\* Point::subtract_origin
subtract_origin(p) == [p EXCEPT !.w = Zero]

\* Vector::magnitude
magnitude(v) ==
    FSqrt(FAdd(FAdd(FAdd(FMul(v.x, v.x), FMul(v.y, v.y)), FMul(v.z, v.z)), FMul(v.w, v.w)))

\* Vector::normalize
normalize(v) ==
    Bind(magnitude(v), LAMBDA m :
        VectorNew(FDiv(v.x, m), FDiv(v.y, m), FDiv(v.z, m)))

\* Vector::dot (the two w components are added, not multiplied)
dot(a, other) ==
    FAdd(FAdd(FAdd(FAdd(FMul(a.x, other.x), FMul(a.y, other.y)), FMul(a.z, other.z)), a.w),
         other.w)

\* Vector::cross
cross(a, other) ==
    VectorNew(FSub(FMul(a.y, other.z), FMul(a.z, other.y)),
              FSub(FMul(a.z, other.x), FMul(a.x, other.z)),
              FSub(FMul(a.x, other.y), FMul(a.y, other.x)))

\* a faulty reflect: the factor 2 is left out
ReflectUnscaled(v, normal) == TupleSub(v, TupleMul(normal, dot(v, normal)))

\* Vector::reflect
reflect(v, normal) == TupleSub(v, TupleMul(TupleMul(normal, Two), dot(v, normal)))

(***************************************************************************)
(* matrix.rs                                                               *)
(***************************************************************************)
MatrixFromValues(rows, cols, values) == [rows |-> rows, cols |-> cols, values |-> values]

MatrixNew(rows, cols) ==
    LET cell(k) == Zero
    IN  MatrixFromValues(rows, cols, Collect(cell, rows * cols))

\* Matrix::index (0-based; values is 1-based here)
index(m, row, col) == row * m.cols + col

\* Matrix::get, for an index inside values
get(m, row, col) == m.values[index(m, row, col) + 1]

\* Matrix::set, for an index inside values
set(m, row, col, value) == [m EXCEPT !.values[index(m, row, col) + 1] = value]

\* Matrix::get as called from outside: values.get(index).copied().unwrap()
get_or_panic(m, row, col) ==
    IF index(m, row, col) < Len(m.values) THEN Ok(get(m, row, col)) ELSE Panic

\* Matrix::set as called from outside: values.get_mut(index), None => panic!
set_or_panic(m, row, col, value) ==
    IF index(m, row, col) < Len(m.values) THEN Ok(set(m, row, col, value)) ELSE Panic

identity_matrix ==
    MatrixFromValues(4, 4,
        <<One, Zero, Zero, Zero,
          Zero, One, Zero, Zero,
          Zero, Zero, One, Zero,
          Zero, Zero, Zero, One>>)

\* a faulty transpose: the matrix itself
TransposeSkipped(m) == m

\* Matrix::transpose: result.set(col, row, self.get(row, col)) for every cell
transpose(m) ==
    LET result == MatrixNew(m.cols, m.rows)
        cell(k) == get(m, (k - 1) % result.cols, (k - 1) \div result.cols)
    IN  [result EXCEPT !.values = Collect(cell, m.cols * m.rows)]

\* Matrix::submatrix
submatrix(m, row, col) ==
    LET rows == m.rows - 1
        cols == m.cols - 1
        cell(k) ==
            LET or == (k - 1) \div cols
                oc == (k - 1) % cols
            IN  get(m, IF or < row THEN or ELSE or + 1,
                       IF oc < col THEN oc ELSE oc + 1)
    IN  MatrixFromValues(rows, cols, Collect(cell, rows * cols))

RECURSIVE determinant(_)
RECURSIVE cofactor(_, _, _)

\* Matrix::minor
minor(m, row, col) == Bind(submatrix(m, row, col), LAMBDA sub : determinant(sub))

\* a faulty cofactor: the minor without its sign
CofactorUnsigned(m, row, col) == minor(m, row, col)

\* Matrix::cofactor
cofactor(m, row, col) ==
    LET modifier == IF (row + col) % 2 = 1 THEN I(-1) ELSE One
    IN  FMul(minor(m, row, col), modifier)

\* Matrix::determinant
determinant(m) ==
    IF m.rows = 2 /\ m.cols = 2
    THEN FSub(FMul(get(m, 0, 0), get(m, 1, 1)), FMul(get(m, 0, 1), get(m, 1, 0)))
    ELSE LET term(col) == FMul(get(m, 0, col), cofactor(m, 0, col))
         IN  SumRange(term, 0, m.cols)

\* a faulty invertible: every matrix
AlwaysInvertible(m) == TRUE

\* Matrix::invertible
invertible(m) == FNe(determinant(m), Zero)

\* Option<Matrix>
None == [some |-> FALSE]
Some(v) == [some |-> TRUE, v |-> v]

\* Matrix::inverse: result.set(col, row, cofactor(row, col) / determinant)
inverse(m) ==
    IF invertible(m)
    THEN Bind(determinant(m), LAMBDA det :
            LET result == MatrixNew(m.cols, m.rows)
                cell(k) ==
                    FDiv(cofactor(m, (k - 1) % result.cols, (k - 1) \div result.cols),
                         det)
            IN  Some([result EXCEPT !.values = Collect(cell, m.cols * m.rows)]))
    ELSE None

translation(x, y, z) == set(set(set(identity_matrix, 0, 3, x), 1, 3, y), 2, 3, z)

scaling(x, y, z) == set(set(set(identity_matrix, 0, 0, x), 1, 1, y), 2, 2, z)

\* f64::cos and f64::sin of the angles used: the radians are named, and the
\* values are the exact ones (cos(PI / 2) is 0 here, 6e-17 in f64)
Angles == { "0", "PI/2", "PI", "atan(4/3)" }

FCos(radians) ==
    CASE radians = "0" -> One
      [] radians = "PI/2" -> Zero
      [] radians = "PI" -> I(-1)
      [] radians = "atan(4/3)" -> Q(3, 5)

FSin(radians) ==
    CASE radians = "0" -> Zero
      [] radians = "PI/2" -> One
      [] radians = "PI" -> Zero
      [] radians = "atan(4/3)" -> Q(4, 5)

rotation_x(radians) ==
    MatrixFromValues(4, 4,
        <<One, Zero, Zero, Zero,
          Zero, FCos(radians), FNeg(FSin(radians)), Zero,
          Zero, FSin(radians), FCos(radians), Zero,
          Zero, Zero, Zero, One>>)

rotation_y(radians) ==
    MatrixFromValues(4, 4,
        <<FCos(radians), Zero, FSin(radians), Zero,
          Zero, One, Zero, Zero,
          FNeg(FSin(radians)), Zero, FCos(radians), Zero,
          Zero, Zero, Zero, One>>)

rotation_z(radians) ==
    MatrixFromValues(4, 4,
        <<FCos(radians), FNeg(FSin(radians)), Zero, Zero,
          FSin(radians), FCos(radians), Zero, Zero,
          Zero, Zero, One, Zero,
          Zero, Zero, Zero, One>>)

shearing(xy, xz, yx, yz, zx, zy) ==
    MatrixFromValues(4, 4,
        <<One, xy, xz, Zero,
          yx, One, yz, Zero,
          zx, zy, One, Zero,
          Zero, Zero, Zero, One>>)

\* impl PartialEq for Matrix
MatrixEq(a, b) ==
    /\ a.rows = b.rows
    /\ a.cols = b.cols
    /\ \A row \in 0 .. a.rows - 1 : \A col \in 0 .. a.cols - 1 :
          approx_equal(get(a, row, col), get(b, row, col))

\* a faulty product: cell by cell
MatrixMulCellwise(a, rhs) ==
    LET cell(k) == FMul(a.values[k], rhs.values[k])
    IN  MatrixFromValues(a.rows, rhs.cols, Collect(cell, a.rows * rhs.cols))

\* impl Mul for &Matrix (the two matrices square and of one size)
MatrixMul(a, rhs) ==
    LET cell(k) ==
            LET row == (k - 1) \div a.cols
                col == (k - 1) % a.cols
                term(i) == FMul(get(a, row, i), get(rhs, i, col))
            IN  SumRange(term, 0, a.rows)
    IN  MatrixFromValues(a.rows, rhs.cols, Collect(cell, a.rows * rhs.cols))

\* impl Mul<&Tuple> for &Matrix
MatrixMulTuple(m, rhs) ==
    LET param(row) ==
            LET term(col) == FMul(get(m, row, col), TupleGet(rhs, col))
            IN  SumRange(term, 0, m.cols)
    IN  TupleNew(param(0), param(1), param(2), param(3))

\* impl Mul<Point> for &Matrix
MatrixMulPoint(m, rhs) == PointFromTuple(MatrixMulTuple(m, rhs))

\* impl Mul<Vector> for &Matrix
MatrixMulVector(m, rhs) == VectorFromTuple(MatrixMulTuple(m, rhs))

\* a faulty translate: the tuple itself
TranslateSkipped(t, x, y, z) == t

\* Tuple::translate, scale, shear, rotate_x, rotate_y, rotate_z (space.rs), and
\* the same methods of Point and Vector, which wrap the Tuple they get
translate(t, x, y, z) == MatrixMulTuple(translation(x, y, z), t)
scale(t, x, y, z) == MatrixMulTuple(scaling(x, y, z), t)
shear(t, xy, xz, yx, yz, zx, zy) == MatrixMulTuple(shearing(xy, xz, yx, yz, zx, zy), t)
rotate_x(t, radians) == MatrixMulTuple(rotation_x(radians), t)
rotate_y(t, radians) == MatrixMulTuple(rotation_y(radians), t)
rotate_z(t, radians) == MatrixMulTuple(rotation_z(radians), t)

(***************************************************************************)
(* color.rs, lighting.rs                                                   *)
(***************************************************************************)
ColorNew(r, g, b) == [r |-> r, g |-> g, b |-> b]

ColorEq(a, b) ==
    /\ approx_equal(a.r, b.r)
    /\ approx_equal(a.g, b.g)
    /\ approx_equal(a.b, b.b)

\* a faulty sum: every channel clamped to 1
ColorAddClamped(a, b) ==
    [r |-> IF FLt(One, FAdd(a.r, b.r)) THEN One ELSE FAdd(a.r, b.r),
     g |-> IF FLt(One, FAdd(a.g, b.g)) THEN One ELSE FAdd(a.g, b.g),
     b |-> IF FLt(One, FAdd(a.b, b.b)) THEN One ELSE FAdd(a.b, b.b)]

ColorAdd(a, b) == [r |-> FAdd(a.r, b.r), g |-> FAdd(a.g, b.g), b |-> FAdd(a.b, b.b)]

ColorMulScalar(a, rhs) == [r |-> FMul(a.r, rhs), g |-> FMul(a.g, rhs), b |-> FMul(a.b, rhs)]

ColorMul(a, b) == [r |-> FMul(a.r, b.r), g |-> FMul(a.g, b.g), b |-> FMul(a.b, b.b)]

PointLightNew(position, intensity) == [position |-> position, intensity |-> intensity]

(***************************************************************************)
(* ray.rs: Ray                                                             *)
(***************************************************************************)
RayNew(origin, direction) == [origin |-> origin, direction |-> direction]

\* Ray::position
position(r, d) == TupleAdd(r.origin, TupleMul(r.direction, d))

\* a faulty transform: the ray is left in world space
TransformSkipped(r, matrix) == r

\* Ray::transform
transform(r, matrix) ==
    RayNew(PointFromTuple(MatrixMulTuple(matrix, r.origin)),
           MatrixMulVector(matrix, r.direction))

(***************************************************************************)
(* materials.rs                                                            *)
(***************************************************************************)
MaterialNew ==
    [color |-> ColorNew(One, One, One),
     ambient |-> Q(1, 10),
     diffuse |-> Q(9, 10),
     specular |-> Q(9, 10),
     shininess |-> I(200)]

\* Material::lighting
lighting(material, light, pos, eyev, normalv) ==
    LET black == ColorNew(Zero, Zero, Zero)
    IN  Bind(ColorMul(material.color, light.intensity), LAMBDA effective_color :
        Bind(normalize(TupleSub(light.position, pos)), LAMBDA lightv :
        Bind(ColorMulScalar(effective_color, material.ambient), LAMBDA ambient :
        Bind(dot(lightv, normalv), LAMBDA light_dot_normal :
            IF FLt(light_dot_normal, Zero)
            THEN ColorAdd(ColorAdd(ambient, black), black)
            ELSE Bind(ColorMulScalar(ColorMulScalar(effective_color, material.diffuse),
                                     light_dot_normal), LAMBDA diffuse :
                 Bind(reflect(TupleMul(lightv, I(-1)), normalv), LAMBDA reflectv :
                 Bind(dot(reflectv, eyev), LAMBDA reflect_dot_eye :
                     IF FLe(reflect_dot_eye, Zero)
                     THEN ColorAdd(ColorAdd(ambient, diffuse), black)
                     ELSE Bind(FPowf(reflect_dot_eye, material.shininess), LAMBDA factor :
                              ColorAdd(ColorAdd(ambient, diffuse),
                                       ColorMulScalar(ColorMulScalar(light.intensity,
                                                                     material.specular),
                                                      factor))))))))))

(***************************************************************************)
(* shape.rs: Sphere, Shape                                                 *)
(***************************************************************************)
SphereNew == [transformation |-> identity_matrix, material |-> MaterialNew]

with_transform(transformation) ==
    [transformation |-> transformation, material |-> MaterialNew]

\* Sphere::intersect, after the inverse was unwrapped
SphereIntersectIn(it, ray) ==
    Bind(transform(ray, it), LAMBDA ray2 :
    Bind(TupleSub(ray2.origin, PointNew(Zero, Zero, Zero)), LAMBDA sphere_to_ray :
    Bind(dot(ray2.direction, ray2.direction), LAMBDA a :
    Bind(FMul(Two, dot(ray2.direction, sphere_to_ray)), LAMBDA b :
    Bind(FSub(dot(sphere_to_ray, sphere_to_ray), One), LAMBDA c :
    Bind(FSub(FMul(b, b), FMul(FMul(I(4), a), c)), LAMBDA discriminant :
        IF FGe(discriminant, Zero)
        THEN << FDiv(FSub(FNeg(b), FSqrt(discriminant)), FMul(Two, a)),
                FDiv(FAdd(FNeg(b), FSqrt(discriminant)), FMul(Two, a)) >>
        ELSE << >>))))))

\* a faulty intersect: a transformation without an inverse is taken for the identity
SphereIntersectLenient(sphere, ray) ==
    Bind(inverse(sphere.transformation), LAMBDA it :
        Ok(SphereIntersectIn(IF it.some THEN it.v ELSE identity_matrix, ray)))

\* Sphere::intersect
SphereIntersect(sphere, ray) ==
    Bind(inverse(sphere.transformation), LAMBDA it :
        IF it.some THEN Ok(SphereIntersectIn(it.v, ray)) ELSE Panic)

\* Sphere::normal_at
normal_at(sphere, p) ==
    Bind(inverse(sphere.transformation), LAMBDA it :
        IF it.some
        THEN LET op == MatrixMulPoint(it.v, p)
                 on == subtract_origin(op)
                 wn == MatrixMulVector(transpose(it.v), on)
             IN  Ok(normalize(wn))
        ELSE Panic)

(***************************************************************************)
(* ray.rs: Intersection, Intersections                                     *)
(***************************************************************************)
\* shape is the reference to the Shape, the index of the shape in the scene
IntersectionNew(t, shape) == [t |-> t, shape |-> shape]

\* impl PartialOrd for Intersection: the order of t reversed; None for a NaN
partial_cmp(a, other) ==
    IF FLt(a.t, other.t) THEN "Greater"
    ELSE IF FLt(other.t, a.t) THEN "Less"
    ELSE IF FEq(a.t, other.t) THEN "Equal"
    ELSE "None"

\* a <= other, as PartialOrd::le derives it from partial_cmp
le(a, other) == partial_cmp(a, other) \in {"Less", "Equal"}

\* BinaryHeap::sift_up(0, pos) of the std library, data 1-based here and the
\* hole at pos: the element moves up while it is not <= its parent
RECURSIVE sift_up(_, _)
sift_up(data, pos) ==
    IF pos > 1
    THEN LET parent == pos \div 2
         IN  IF le(data[pos], data[parent])
             THEN data
             ELSE sift_up([data EXCEPT ![pos] = data[parent], ![parent] = data[pos]],
                          parent)
    ELSE data

\* a faulty add: a record whose t is already there is not kept
AddMerging(items, i) ==
    IF \E k \in 1 .. Len(items) : FEq(items[k].t, i.t) THEN items
    ELSE sift_up(Append(items, i), Len(items) + 1)

\* Intersections::add: BinaryHeap::push
add(items, i) == sift_up(Append(items, i), Len(items) + 1)

\* Intersections::hit: the first item, in the order of BinaryHeap::iter (the
\* order of the heap's array), whose t has a clear sign bit
RECURSIVE HitFrom(_, _)
HitFrom(items, k) ==
    IF k > Len(items) THEN None
    ELSE IF IsSignPositive(items[k].t) THEN Some(items[k])
    ELSE HitFrom(items, k + 1)

hit(items) == HitFrom(items, 1)

\* Intersections::into_iter: BinaryHeap::into_iter, the heap's array in its order
into_iter(items) == items

\* Intersections::len
len(items) == Len(items)

\* a faulty loop: the first t only is added
AddFirstOnly(data, ts, shape, k) ==
    IF Len(ts) = 0 THEN data ELSE add(data, IntersectionNew(ts[1], shape))

\* the loop of Shape::intersect: every t added in turn, each with the shape
RECURSIVE AddAll(_, _, _, _)
AddAll(data, ts, shape, k) ==
    IF k > Len(ts) THEN data
    ELSE AddAll(add(data, IntersectionNew(ts[k], shape)), ts, shape, k + 1)

(***************************************************************************)
(* canvas.rs                                                               *)
(***************************************************************************)
\* Canvas::new
CanvasNew(width, height) ==
    [width |-> width, height |-> height,
     pixels |-> [k \in 1 .. width * height |-> ColorNew(Zero, Zero, Zero)]]

\* a faulty write_pixel: the pixels counted column after column
WritePixelColumnMajor(c, x, y, color) ==
    IF x * c.height + y < Len(c.pixels)
    THEN Ok([c EXCEPT !.pixels[x * c.height + y + 1] = color])
    ELSE Panic

\* Canvas::write_pixel: self.pixels[y * self.width + x] = color, the index checked
\* against the length of the Vec
write_pixel(c, x, y, color) ==
    IF y * c.width + x < Len(c.pixels)
    THEN Ok([c EXCEPT !.pixels[y * c.width + x + 1] = color])
    ELSE Panic

\* Canvas::pixel_at: self.pixels[y * self.width + x]
pixel_at(c, x, y) ==
    IF y * c.width + x < Len(c.pixels) THEN Ok(c.pixels[y * c.width + x + 1]) ELSE Panic

(***************************************************************************)
(* The state: a scene of shapes, one Intersections collection, a canvas,   *)
(* the parallel driver, the matrices of the process, and the outcome of    *)
(* the last call.                                                          *)
(***************************************************************************)
VARIABLES
    shapes,     \* the scene: shape index -> Sphere
    items,      \* Intersections.items: the array of the BinaryHeap
    added,      \* history: the records added to the collection since it was new
    result,     \* the last call, its arguments and what it returned
    canvas,     \* a Canvas: width, height and the Vec of pixels
    driver,     \* the pixel loop of an example: where it is and what its tasks did
    heap,       \* the Matrix objects of the process and the IDENTITY_MATRIX cell
    written     \* history: the colour last written at each (x, y) of the canvas

vars == << shapes, items, added, result, canvas, driver, heap, written >>

\* nothing written yet; strayed: some write had x >= width and did not panic
NoWrites == [last |-> [p \in {} |-> Zero], strayed |-> FALSE]

\* the history after write_pixel(x, y, color) returned
Logged(w, c, x, y, color) ==
    [last |-> (<< x, y >> :> color) @@ w.last,
     strayed |-> w.strayed \/ x >= c.width]

\* no canvas in use, no driver started, IDENTITY_MATRIX not initialised
Elsewhere ==
    /\ canvas = CanvasNew(0, 0)
    /\ driver = [phase |-> "off"]
    /\ heap = [cell |-> 0, objects |-> << >>]
    /\ written = NoWrites

\* a call that panicked unwinds: nothing runs after it
Running == ~result.panicked

\* the most records one collection holds
MaxLen == 4

ShapeIds == {1, 2}

\* the t values of the records added directly
TVals == {I(-2), NegZero, Zero, I(1), I(2)}

DefaultShapes == [s \in ShapeIds |-> SphereNew]

\* Intersections::new
New ==
    /\ Running
    /\ items' = << >>
    /\ added' = << >>
    /\ result' = [op |-> "new", panicked |-> FALSE]
    /\ UNCHANGED << shapes, canvas, driver, heap, written >>

\* Intersections::add
Add(t, shape) ==
    /\ Running
    /\ Len(items) < MaxLen
    /\ items' = add(items, IntersectionNew(t, shape))
    /\ added' = Append(added, IntersectionNew(t, shape))
    /\ result' = [op |-> "add", panicked |-> FALSE]
    /\ UNCHANGED << shapes, canvas, driver, heap, written >>

\* Intersections::hit
Hit ==
    /\ Running
    /\ result' = [op |-> "hit", panicked |-> FALSE, ret |-> hit(items)]
    /\ UNCHANGED << shapes, items, added, canvas, driver, heap, written >>

\* Intersections::len
LenCall ==
    /\ Running
    /\ result' = [op |-> "len", panicked |-> FALSE, ret |-> len(items)]
    /\ UNCHANGED << shapes, items, added, canvas, driver, heap, written >>

\* Intersections::into_iter, which consumes the collection: every record is
\* yielded, and the next collection is a new one
IntoIter ==
    /\ Running
    /\ result' = [op |-> "into_iter", panicked |-> FALSE, ret |-> into_iter(items)]
    /\ items' = << >>
    /\ added' = << >>
    /\ UNCHANGED << shapes, canvas, driver, heap, written >>

Init ==
    /\ shapes = DefaultShapes
    /\ items = << >>
    /\ added = << >>
    /\ result = [op |-> "new", panicked |-> FALSE]
    /\ Elsewhere

Next ==
    \/ New
    \/ \E t \in TVals, shape \in ShapeIds : Add(t, shape)
    \/ Hit
    \/ LenCall
    \/ IntoIter

Spec == Init /\ [][Next]_vars

(***************************************************************************)
(* The scene queries: Shape::intersect and Shape::normal_at on shapes with  *)
(* the transformations of the tests, a singular one among them.             *)
(***************************************************************************)
P3(x, y, z) == PointNew(I(x), I(y), I(z))
V3(x, y, z) == VectorNew(I(x), I(y), I(z))

Half == Q(1, 2)

\* translation(0, 1, 0) * scaling(1, 0.5, 1)
SquashedUp == MatrixMul(translation(Zero, One, Zero), scaling(One, Half, One))

Scenes ==
    { << with_transform(identity_matrix), with_transform(scaling(Two, Two, Two)) >>,
      << with_transform(translation(I(5), Zero, Zero)), with_transform(identity_matrix) >>,
      << with_transform(scaling(Zero, One, One)), with_transform(identity_matrix) >>,
      << with_transform(shearing(One, Zero, Zero, Zero, Zero, Zero)),
         with_transform(SquashedUp) >> }

Rays ==
    { RayNew(P3(0, 0, -5), V3(0, 0, 1)),
      RayNew(P3(0, 1, -5), V3(0, 0, 1)),
      RayNew(P3(0, 0, 0), V3(0, 0, 1)),
      RayNew(P3(5, 0, -5), V3(0, 0, 1)),
      RayNew(P3(0, 0, -2), V3(0, 1, 3)),
      RayNew(P3(0, 0, -5), V3(0, 0, 0)) }

NormalTransformations ==
    { identity_matrix, translation(Zero, One, Zero), SquashedUp,
      shearing(One, Zero, Zero, Zero, Zero, Zero) }

NormalScenes == [ShapeIds -> {with_transform(m) : m \in NormalTransformations}]

NormalPoints == { P3(1, 0, 0), P3(0, 1, 0), P3(0, 2, 0), P3(3, 0, 4) }

\* Shape::intersect
Intersect(shape, ray) ==
    /\ Running
    /\ Len(items) + 2 <= MaxLen
    /\ \E ts \in {SphereIntersect(shapes[shape], ray)} :
           IF ts.panicked
           THEN /\ result' = [op |-> "intersect", panicked |-> TRUE,
                              shape |-> shape, ray |-> ray]
                /\ UNCHANGED << items, added, canvas, driver, heap, written >>
           ELSE /\ result' = [op |-> "intersect", panicked |-> FALSE,
                              shape |-> shape, ray |-> ray]
                /\ items' = AddAll(items, ts.v, shape, 1)
                /\ added' = added \o [k \in 1 .. Len(ts.v) |->
                                        IntersectionNew(ts.v[k], shape)]
    /\ UNCHANGED << shapes, canvas, driver, heap, written >>

\* Shape::normal_at
NormalAt(shape, p) ==
    /\ Running
    /\ \E n \in {normal_at(shapes[shape], p)} :
           IF n.panicked
           THEN result' = [op |-> "normal_at", panicked |-> TRUE,
                           shape |-> shape, p |-> p]
           ELSE result' = [op |-> "normal_at", panicked |-> FALSE,
                           shape |-> shape, p |-> p, ret |-> n.v]
    /\ UNCHANGED << shapes, items, added, canvas, driver, heap, written >>

InitShape ==
    /\ shapes \in Scenes
    /\ items = << >>
    /\ added = << >>
    /\ result = [op |-> "new", panicked |-> FALSE]
    /\ Elsewhere

NextShape ==
    \/ New
    \/ \E shape \in ShapeIds, ray \in Rays : Intersect(shape, ray)

SpecShape == InitShape /\ [][NextShape]_vars

InitNormal ==
    /\ shapes \in NormalScenes
    /\ items = << >>
    /\ added = << >>
    /\ result = [op |-> "new", panicked |-> FALSE]
    /\ Elsewhere

NextNormal == \E shape \in ShapeIds, p \in NormalPoints : NormalAt(shape, p)

SpecNormal == InitNormal /\ [][NextNormal]_vars

\* a sphere whose transformation has no inverse, next to the default sphere
InitSingular ==
    /\ shapes = << with_transform(scaling(Zero, One, One)), SphereNew >>
    /\ items = << >>
    /\ added = << >>
    /\ result = [op |-> "new", panicked |-> FALSE]
    /\ Elsewhere

NextSingular == NextShape \/ NextNormal

SpecSingular == InitSingular /\ [][NextSingular]_vars

(***************************************************************************)
(* Shading: the material of a shape set through Shape::material_mut, and    *)
(* Material::lighting at the origin of a surface that faces (0, 0, -1).     *)
(***************************************************************************)
Ambients == { Q(1, 10), Half }
Shininesses == { I(200), I(10) }
Colors == { ColorNew(One, One, One), ColorNew(One, Q(1, 10), Zero) }

White == ColorNew(One, One, One)

Lights ==
    { PointLightNew(P3(0, 0, -10), White),
      PointLightNew(P3(0, 10, -10), White),
      PointLightNew(P3(0, 0, 10), White) }

\* (0, -sqrt(2)/2, -sqrt(2)/2) and (0, sqrt(2)/2, -sqrt(2)/2) to four places
EyeInReflection == VectorNew(Zero, Q(-7071, 10000), Q(-7071, 10000))
EyeAt45 == VectorNew(Zero, Q(7071, 10000), Q(-7071, 10000))

Eyes == { V3(0, 0, -1), EyeInReflection, EyeAt45 }

\* shape.material_mut().ambient = v: no Intersections borrows the shape
SetAmbient(shape, v) ==
    /\ Running
    /\ items = << >>
    /\ shapes' = [shapes EXCEPT ![shape].material.ambient = v]
    /\ result' = [op |-> "material_mut", panicked |-> FALSE]
    /\ UNCHANGED << items, added, canvas, driver, heap, written >>

\* shape.material_mut().shininess = v
SetShininess(shape, v) ==
    /\ Running
    /\ items = << >>
    /\ shapes' = [shapes EXCEPT ![shape].material.shininess = v]
    /\ result' = [op |-> "material_mut", panicked |-> FALSE]
    /\ UNCHANGED << items, added, canvas, driver, heap, written >>

\* shape.material_mut().color = v
SetColor(shape, v) ==
    /\ Running
    /\ items = << >>
    /\ shapes' = [shapes EXCEPT ![shape].material.color = v]
    /\ result' = [op |-> "material_mut", panicked |-> FALSE]
    /\ UNCHANGED << items, added, canvas, driver, heap, written >>

\* shape.material().lighting(light, position, eyev, normalv)
Lighting(shape, light, pos, eyev, normalv) ==
    /\ Running
    /\ result' = [op |-> "lighting", panicked |-> FALSE, shape |-> shape,
                  light |-> light, position |-> pos, eyev |-> eyev,
                  normalv |-> normalv,
                  ret |-> lighting(shapes[shape].material, light, pos, eyev, normalv)]
    /\ UNCHANGED << shapes, items, added, canvas, driver, heap, written >>

NextLight ==
    \/ \E shape \in ShapeIds, v \in Ambients : SetAmbient(shape, v)
    \/ \E shape \in ShapeIds, v \in Shininesses : SetShininess(shape, v)
    \/ \E shape \in ShapeIds, v \in Colors : SetColor(shape, v)
    \/ \E shape \in ShapeIds, light \in Lights, eyev \in Eyes :
          Lighting(shape, light, P3(0, 0, 0), eyev, V3(0, 0, -1))

SpecLight == Init /\ [][NextLight]_vars

(***************************************************************************)
(* Matrices: the transformation of a sphere set through                     *)
(* Sphere::transformation, its inverse, and the products of the tests.      *)
(***************************************************************************)
M4(v) == MatrixFromValues(4, 4, [k \in 1 .. 16 |-> I(v[k])])

\* the matrices of test_invertible, test_inversion and test_inverse_multiplication
Invertible4 == M4(<< 6, 4, 4, 4, 5, 5, 7, 6, 4, -9, 3, -7, 9, 1, 7, -6 >>)
NonInvertible4 == M4(<< -4, 2, -2, -3, 9, 6, 2, 6, 0, -5, 1, -5, 0, 0, 0, 0 >>)
InversionA == M4(<< -5, 2, 6, -8, 1, -5, 1, 8, 7, 7, -6, -7, 1, -3, 7, 4 >>)
MultiplicationA == M4(<< 3, -9, 7, 3, 3, -8, 2, -9, -4, 4, 4, 1, -6, 5, -1, 1 >>)
MultiplicationB == M4(<< 8, 2, 2, 2, 3, -1, 7, 0, 7, 0, 5, 4, 6, -2, 0, 5 >>)

Matrices == { Invertible4, NonInvertible4, InversionA, MultiplicationA, MultiplicationB }

\* *sphere.transformation() = m: no Intersections borrows the shape
SetTransformation(shape, m) ==
    /\ Running
    /\ items = << >>
    /\ shapes' = [shapes EXCEPT ![shape].transformation = m]
    /\ result' = [op |-> "transformation", panicked |-> FALSE]
    /\ UNCHANGED << items, added, canvas, driver, heap, written >>

\* m.inverse()
Inverse(shape) ==
    /\ Running
    /\ result' = [op |-> "inverse", panicked |-> FALSE, shape |-> shape,
                  ret |-> inverse(shapes[shape].transformation)]
    /\ UNCHANGED << shapes, items, added, canvas, driver, heap, written >>

\* &m.inverse().unwrap() * &m and &m * &m.inverse().unwrap()
InverseProducts(shape) ==
    /\ Running
    /\ \E m \in {shapes[shape].transformation} : \E inv \in {inverse(m)} :
          IF inv.some
          THEN result' = [op |-> "inverse_products", panicked |-> FALSE, shape |-> shape,
                          left |-> MatrixMul(inv.v, m), right |-> MatrixMul(m, inv.v)]
          ELSE result' = [op |-> "inverse_products", panicked |-> TRUE, shape |-> shape]
    /\ UNCHANGED << shapes, items, added, canvas, driver, heap, written >>

\* (&a * &b) * b.inverse().unwrap(), a and b the matrices of the two spheres
ProductTimesInverse ==
    /\ Running
    /\ \E a \in {shapes[1].transformation}, b \in {shapes[2].transformation} :
          \E inv \in {inverse(b)} :
             IF inv.some
             THEN result' = [op |-> "product_times_inverse", panicked |-> FALSE,
                             ret |-> MatrixMul(MatrixMul(a, b), inv.v)]
             ELSE result' = [op |-> "product_times_inverse", panicked |-> TRUE]
    /\ UNCHANGED << shapes, items, added, canvas, driver, heap, written >>

NextMatrix ==
    \/ \E shape \in ShapeIds, m \in Matrices : SetTransformation(shape, m)
    \/ \E shape \in ShapeIds : Inverse(shape)
    \/ \E shape \in ShapeIds : InverseProducts(shape)
    \/ ProductTimesInverse

SpecMatrix == Init /\ [][NextMatrix]_vars

(***************************************************************************)
(* Cells: Matrix::get and Matrix::set on the matrix of the first sphere,   *)
(* reached through Sphere::transformation, with any row and column.        *)
(***************************************************************************)
Wide == MatrixFromValues(2, 3, << I(1), I(2), I(3), I(4), I(5), I(6) >>)
Tall == MatrixFromValues(3, 2, << I(1), I(2), I(3), I(4), I(5), I(6) >>)
Small == MatrixFromValues(2, 2, << I(1), I(2), I(3), I(4) >>)

CellMatrices == { Wide, Tall, Small }

\* the rows and columns asked for, some of them outside every matrix above
CellIndices == 0 .. 3

CellValues == { I(9) }

\* sphere.transformation().get(row, col)
GetCell(shape, row, col) ==
    /\ Running
    /\ \E r \in {get_or_panic(shapes[shape].transformation, row, col)} :
          IF r.panicked
          THEN result' = [op |-> "get", panicked |-> TRUE, shape |-> shape,
                          row |-> row, col |-> col]
          ELSE result' = [op |-> "get", panicked |-> FALSE, shape |-> shape,
                          row |-> row, col |-> col, ret |-> r.v]
    /\ UNCHANGED << shapes, items, added, canvas, driver, heap, written >>

\* sphere.transformation().set(row, col, value): no Intersections borrows the shape
SetCell(shape, row, col, value) ==
    /\ Running
    /\ items = << >>
    /\ \E r \in {set_or_panic(shapes[shape].transformation, row, col, value)} :
          IF r.panicked
          THEN /\ result' = [op |-> "set", panicked |-> TRUE, shape |-> shape,
                             row |-> row, col |-> col, value |-> value]
               /\ UNCHANGED << shapes, canvas, driver, heap, written >>
          ELSE /\ result' = [op |-> "set", panicked |-> FALSE, shape |-> shape,
                             row |-> row, col |-> col, value |-> value]
               /\ shapes' = [shapes EXCEPT ![shape].transformation = r.v]
    /\ UNCHANGED << items, added, canvas, driver, heap, written >>

NextCell ==
    \/ \E m \in CellMatrices : SetTransformation(1, m)
    \/ \E row \in CellIndices, col \in CellIndices : GetCell(1, row, col)
    \/ \E row \in CellIndices, col \in CellIndices, value \in CellValues :
          SetCell(1, row, col, value)

InitCell ==
    /\ shapes = << with_transform(Wide), SphereNew >>
    /\ items = << >>
    /\ added = << >>
    /\ result = [op |-> "new", panicked |-> FALSE]
    /\ Elsewhere

SpecCell == InitCell /\ [][NextCell]_vars

(***************************************************************************)
(* Determinants: Matrix::determinant, submatrix, minor and cofactor on the  *)
(* square matrices of the tests, held as the matrix of the first sphere.    *)
(***************************************************************************)
M3(v) == MatrixFromValues(3, 3, [k \in 1 .. 9 |-> I(v[k])])
M2(v) == MatrixFromValues(2, 2, [k \in 1 .. 4 |-> I(v[k])])

\* the matrices of test_determinant_2x2 / 3x3 / 4x4, test_submatrix and test_minor
Determinant2 == M2(<< 1, 5, -3, 2 >>)
Determinant3 == M3(<< 1, 2, 6, -5, 8, -4, 2, 6, 4 >>)
Determinant4 == M4(<< -2, -8, 3, 5, -3, 1, 7, 3, 1, 2, -9, 6, -6, 7, 7, -9 >>)
Submatrix3 == M3(<< 1, 5, 0, -3, 2, 7, 0, 6, -3 >>)
Submatrix4 == M4(<< -6, 1, 1, 6, -8, 5, 8, 6, -1, 0, 8, 2, -7, 1, -1, 1 >>)
Minor3 == M3(<< 3, 5, 0, 2, -1, -7, 6, -1, 5 >>)

SquareMatrices ==
    { Determinant2, Determinant3, Determinant4, Submatrix3, Submatrix4, Minor3,
      NonInvertible4, identity_matrix }

\* m.determinant()
Determinant(shape) ==
    /\ Running
    /\ result' = [op |-> "determinant", panicked |-> FALSE, shape |-> shape,
                  ret |-> determinant(shapes[shape].transformation)]
    /\ UNCHANGED << shapes, items, added, canvas, driver, heap, written >>

\* m.submatrix(row, col), row and col inside m
Submatrix(shape, row, col) ==
    /\ Running
    /\ row < shapes[shape].transformation.rows
    /\ col < shapes[shape].transformation.cols
    /\ result' = [op |-> "submatrix", panicked |-> FALSE, shape |-> shape,
                  row |-> row, col |-> col,
                  ret |-> submatrix(shapes[shape].transformation, row, col)]
    /\ UNCHANGED << shapes, items, added, canvas, driver, heap, written >>

\* m.minor(row, col), row and col inside m
Minor(shape, row, col) ==
    /\ Running
    /\ row < shapes[shape].transformation.rows
    /\ col < shapes[shape].transformation.cols
    /\ result' = [op |-> "minor", panicked |-> FALSE, shape |-> shape,
                  row |-> row, col |-> col,
                  ret |-> minor(shapes[shape].transformation, row, col)]
    /\ UNCHANGED << shapes, items, added, canvas, driver, heap, written >>

\* m.cofactor(row, col), row and col inside m
Cofactor(shape, row, col) ==
    /\ Running
    /\ row < shapes[shape].transformation.rows
    /\ col < shapes[shape].transformation.cols
    /\ result' = [op |-> "cofactor", panicked |-> FALSE, shape |-> shape,
                  row |-> row, col |-> col,
                  ret |-> cofactor(shapes[shape].transformation, row, col)]
    /\ UNCHANGED << shapes, items, added, canvas, driver, heap, written >>

NextDeterminant ==
    \/ \E m \in SquareMatrices : SetTransformation(1, m)
    \/ Determinant(1)
    \/ \E row \in CellIndices, col \in CellIndices : Submatrix(1, row, col)
    \/ \E row \in CellIndices, col \in CellIndices : Minor(1, row, col)
    \/ \E row \in CellIndices, col \in CellIndices : Cofactor(1, row, col)

SpecDeterminant == Init /\ [][NextDeterminant]_vars

(***************************************************************************)
(* Products: Matrix * Matrix on two square matrices of one size, held as   *)
(* the matrices of the two spheres, and Matrix * Tuple.                     *)
(***************************************************************************)
\* the matrices of test_multiplication, test_tuple_multiplication and
\* test_multiply_by_identity
ProductA == M4(<< 1, 2, 3, 4, 5, 6, 7, 8, 9, 8, 7, 6, 5, 4, 3, 2 >>)
ProductB == M4(<< -2, 1, 2, 3, 3, 2, 1, -1, 4, 3, 6, 5, 1, 2, 7, 8 >>)
TupleProductM == M4(<< 1, 2, 3, 4, 2, 4, 4, 2, 8, 6, 4, 1, 0, 0, 0, 1 >>)
IdentityProductM == M4(<< 0, 1, 2, 4, 1, 2, 4, 8, 2, 4, 8, 16, 4, 8, 16, 32 >>)

ProductMatrices ==
    { ProductA, ProductB, TupleProductM, IdentityProductM, identity_matrix,
      Determinant2, Small, Determinant3, Minor3 }

ProductTuples ==
    { PointNew(I(1), I(2), I(3)), VectorNew(I(1), I(2), I(3)),
      TupleNew(I(-1), Half, Zero, I(2)) }

\* &a * &b, a and b the matrices of the two spheres, square and of one size
Multiply ==
    /\ Running
    /\ shapes[1].transformation.rows = shapes[1].transformation.cols
    /\ shapes[2].transformation.rows = shapes[2].transformation.cols
    /\ shapes[1].transformation.rows = shapes[2].transformation.rows
    /\ result' = [op |-> "mul", panicked |-> FALSE,
                  ret |-> MatrixMul(shapes[1].transformation, shapes[2].transformation)]
    /\ UNCHANGED << shapes, items, added, canvas, driver, heap, written >>

\* &m * identity_matrix(), m a 4x4 matrix
MultiplyIdentity(shape) ==
    /\ Running
    /\ shapes[shape].transformation.rows = 4
    /\ shapes[shape].transformation.cols = 4
    /\ result' = [op |-> "mul_identity", panicked |-> FALSE, shape |-> shape,
                  ret |-> MatrixMul(shapes[shape].transformation, identity_matrix)]
    /\ UNCHANGED << shapes, items, added, canvas, driver, heap, written >>

\* &m * &t, m a 4x4 matrix
MultiplyTuple(shape, t) ==
    /\ Running
    /\ shapes[shape].transformation.rows = 4
    /\ shapes[shape].transformation.cols = 4
    /\ result' = [op |-> "mul_tuple", panicked |-> FALSE, shape |-> shape, t |-> t,
                  ret |-> MatrixMulTuple(shapes[shape].transformation, t)]
    /\ UNCHANGED << shapes, items, added, canvas, driver, heap, written >>

NextProduct ==
    \/ \E shape \in ShapeIds, m \in ProductMatrices : SetTransformation(shape, m)
    \/ Multiply
    \/ \E shape \in ShapeIds : MultiplyIdentity(shape)
    \/ \E shape \in ShapeIds, t \in ProductTuples : MultiplyTuple(shape, t)

SpecProduct == Init /\ [][NextProduct]_vars

(***************************************************************************)
(* Chains: three transforms applied to a point, as one product and one at  *)
(* a time, and the fluent methods of Point.                                *)
(***************************************************************************)
\* the transforms of test_transformations_applied_in_sequence, and others
Transforms ==
    { rotation_x("PI/2"), scaling(I(5), I(5), I(5)), translation(I(10), I(5), I(7)),
      rotation_z("atan(4/3)"), shearing(One, Zero, Zero, Two, Zero, Zero) }

ChainPoints == { P3(1, 0, 1), P3(-3, 4, 5) }

ChainAngles == { "PI/2", "atan(4/3)" }

ChainTriples == { << I(5), I(5), I(5) >>, << I(10), I(5), I(7) >> }

\* the most transforms applied to one point
MaxChain == 3

\* c * b * a for the transforms << a, b, c >>, multiplied from the left as the
\* expression c * b * a is
RECURSIVE LeftProduct(_)
LeftProduct(applied) ==
    IF Len(applied) = 1 THEN applied[1]
    ELSE MatrixMul(LeftProduct(Tail(applied)), applied[1])

\* one more transform m applied to the point reached so far; product is what
\* the transforms applied so far, multiplied into one matrix, make of p
Applied(m, moved) ==
    Bind(Append(result.applied, m), LAMBDA applied :
        [op |-> "chain", panicked |-> FALSE, p |-> result.p, applied |-> applied,
         steps |-> moved,
         product |-> MatrixMulPoint(LeftProduct(applied), result.p)])

\* let p = Tuple::point(..)
StartChain(p) ==
    /\ Running
    /\ result' = [op |-> "chain", panicked |-> FALSE, p |-> p, applied |-> << >>,
                  steps |-> p, product |-> p]
    /\ UNCHANGED << shapes, items, added, canvas, driver, heap, written >>

\* &m * p
ApplyMatrix(m) ==
    /\ Running
    /\ result.op = "chain"
    /\ Len(result.applied) < MaxChain
    /\ result' = Applied(m, MatrixMulPoint(m, result.steps))
    /\ UNCHANGED << shapes, items, added, canvas, driver, heap, written >>

\* p.rotate_x(radians)
RotateX(radians) ==
    /\ Running
    /\ result.op = "chain"
    /\ Len(result.applied) < MaxChain
    /\ result' = Applied(rotation_x(radians), rotate_x(result.steps, radians))
    /\ UNCHANGED << shapes, items, added, canvas, driver, heap, written >>

\* p.scale(x, y, z)
Scale(s) ==
    /\ Running
    /\ result.op = "chain"
    /\ Len(result.applied) < MaxChain
    /\ result' = Applied(scaling(s[1], s[2], s[3]), scale(result.steps, s[1], s[2], s[3]))
    /\ UNCHANGED << shapes, items, added, canvas, driver, heap, written >>

\* p.translate(x, y, z)
Translate(t) ==
    /\ Running
    /\ result.op = "chain"
    /\ Len(result.applied) < MaxChain
    /\ result' = Applied(translation(t[1], t[2], t[3]),
                         translate(result.steps, t[1], t[2], t[3]))
    /\ UNCHANGED << shapes, items, added, canvas, driver, heap, written >>

NextChain ==
    \/ \E p \in ChainPoints : StartChain(p)
    \/ \E m \in Transforms : ApplyMatrix(m)
    \/ \E radians \in ChainAngles : RotateX(radians)
    \/ \E s \in ChainTriples : Scale(s)
    \/ \E t \in ChainTriples : Translate(t)

SpecChain == Init /\ [][NextChain]_vars

(***************************************************************************)
(* Transposes: Matrix::transpose on the matrix of the first sphere, square  *)
(* or not, its cells changed through Matrix::set.                           *)
(***************************************************************************)
\* the matrix of test_transpose
TransposeM == M4(<< 0, 9, 3, 0, 9, 8, 0, 8, 1, 8, 5, 3, 0, 0, 5, 8 >>)

Row == MatrixFromValues(1, 4, << I(1), I(2), I(3), I(4) >>)

TransposeMatrices == { TransposeM, identity_matrix, Wide, Tall, Small, Row }

\* the most cells of a matrix whose cells are changed here
MaxCells == 6

\* m.transpose() and m.transpose().transpose()
Transpose(shape) ==
    /\ Running
    /\ \E t \in {transpose(shapes[shape].transformation)} :
          result' = [op |-> "transpose", panicked |-> FALSE, shape |-> shape,
                     ret |-> t, twice |-> transpose(t)]
    /\ UNCHANGED << shapes, items, added, canvas, driver, heap, written >>

NextTranspose ==
    \/ \E m \in TransposeMatrices : SetTransformation(1, m)
    \/ \E row \in CellIndices, col \in CellIndices, value \in CellValues :
          /\ Len(shapes[1].transformation.values) <= MaxCells
          /\ SetCell(1, row, col, value)
    \/ Transpose(1)

SpecTranspose == Init /\ [][NextTranspose]_vars

(***************************************************************************)
(* Rays: Ray::transform with the matrix of a sphere, and a translation      *)
(* applied to a vector.                                                     *)
(***************************************************************************)
\* the ray and the matrices of test_ray_translation and test_ray_scaling, and others
TestRay == RayNew(P3(1, 2, 3), V3(0, 1, 0))

RayMatrices ==
    { translation(I(3), I(4), I(5)), scaling(I(2), I(3), I(4)), identity_matrix,
      translation(I(5), I(-3), I(2)), rotation_z("atan(4/3)"), ProductA }

RayRays == Rays \cup { TestRay }

RayVectors == { V3(-3, 4, 5), V3(0, 1, 0), V3(0, 0, 0), VectorNew(Half, I(-1), Two) }

\* r.transform(&m), m the matrix of a sphere
Transform(shape, ray) ==
    /\ Running
    /\ result' = [op |-> "transform", panicked |-> FALSE, shape |-> shape, ray |-> ray,
                  ret |-> transform(ray, shapes[shape].transformation)]
    /\ UNCHANGED << shapes, items, added, canvas, driver, heap, written >>

\* Matrix::translation(x, y, z) * v
TranslateVector(t, v) ==
    /\ Running
    /\ result' = [op |-> "translate_vector", panicked |-> FALSE, t |-> t, v |-> v,
                  ret |-> MatrixMulVector(translation(t[1], t[2], t[3]), v)]
    /\ UNCHANGED << shapes, items, added, canvas, driver, heap, written >>

NextRay ==
    \/ \E shape \in ShapeIds, m \in RayMatrices : SetTransformation(shape, m)
    \/ \E shape \in ShapeIds, ray \in RayRays : Transform(shape, ray)
    \/ \E t \in ChainTriples, v \in RayVectors : TranslateVector(t, v)

SpecRay == Init /\ [][NextRay]_vars

(***************************************************************************)
(* The arithmetic of points and vectors (space.rs): a point plus or minus   *)
(* a vector, the difference of two points, the sum and the difference of    *)
(* two vectors, as in test_tuple_add and test_tuple_subtract_*.             *)
(***************************************************************************)
\* the operands of test_tuple_add and test_tuple_subtract_*, and others
SpacePoints ==
    { P3(3, -2, 5), P3(3, 2, 1), P3(5, 6, 7), P3(0, 0, 0), PointNew(Half, NegZero, I(-4)) }

SpaceVectors ==
    { V3(-2, 3, 1), V3(5, 6, 7), V3(3, 2, 1), V3(0, 0, 0), VectorNew(Q(-1, 3), Half, Two) }

Done(op, a, b, ret) ==
    /\ Running
    /\ result' = [op |-> op, panicked |-> FALSE, a |-> a, b |-> b, ret |-> ret]
    /\ UNCHANGED << shapes, items, added, canvas, driver, heap, written >>

\* p + v
AddVector(p, v) == Done("point_add_vector", p, v, PointAddVector(p, v))

\* p - q
SubPoint(p, q) == Done("point_sub_point", p, q, PointSubPoint(p, q))

\* p - v
SubVector(p, v) == Done("point_sub_vector", p, v, PointSubVector(p, v))

\* u + v
AddVectors(u, v) == Done("vector_add", u, v, VectorAdd(u, v))

\* u - v
SubVectors(u, v) == Done("vector_sub", u, v, VectorSub(u, v))

\* (p + v) - v
AddThenSub(p, v) ==
    Done("add_then_sub", p, v, PointSubVector(PointAddVector(p, v), v))

NextSpace ==
    \/ \E p \in SpacePoints, v \in SpaceVectors : AddVector(p, v)
    \/ \E p \in SpacePoints, q \in SpacePoints : SubPoint(p, q)
    \/ \E p \in SpacePoints, v \in SpaceVectors : SubVector(p, v)
    \/ \E u \in SpaceVectors, v \in SpaceVectors : AddVectors(u, v)
    \/ \E u \in SpaceVectors, v \in SpaceVectors : SubVectors(u, v)
    \/ \E p \in SpacePoints, v \in SpaceVectors : AddThenSub(p, v)

SpecSpace == Init /\ [][NextSpace]_vars

(***************************************************************************)
(* The kernel of space.rs and matrix.rs applied to points and vectors: the  *)
(* arithmetic of Tuple (reached through Deref from a Point or a Vector),    *)
(* the products of a matrix and a Tuple, a Point or a Vector, and the       *)
(* methods of Point and Vector.                                            *)
(***************************************************************************)
\* the vectors of test_tuple_normalize, test_tuple_magnitude and test_reflect_45, and others
KernelVectors ==
    SpaceVectors \cup { V3(1, -1, 0), V3(0, 1, 0), V3(4, 0, 0), V3(1, 2, 3), V3(0, 3, -4) }

KernelTuples == SpacePoints \cup KernelVectors

\* 3.5 and 2.0 of test_tuple_mul and test_tuple_div
KernelScalars == { Q(7, 2), Two }

KernelMatrices ==
    { identity_matrix, translation(I(5), I(-3), I(2)), scaling(I(2), I(3), I(4)),
      TupleProductM, ProductA }

\* *a + *b
TupleAddOp(a, b) == Done("tuple_add", a, b, TupleAdd(a, b))

\* *a - *b
TupleSubOp(a, b) == Done("tuple_sub", a, b, TupleSub(a, b))

\* -*a
TupleNegOp(a) == Done("tuple_neg", a, a, TupleNeg(a))

\* *a * rhs
TupleMulOp(a, rhs) == Done("tuple_mul", a, rhs, TupleMul(a, rhs))

\* *a / rhs
TupleDivOp(a, rhs) == Done("tuple_div", a, rhs, TupleDiv(a, rhs))

\* &m * *a
MatrixTimesTuple(m, a) == Done("matrix_mul_tuple", m, a, MatrixMulTuple(m, a))

\* &m * p
MatrixTimesPoint(m, p) == Done("matrix_mul_point", m, p, MatrixMulPoint(m, p))

\* &m * v
MatrixTimesVector(m, v) == Done("matrix_mul_vector", m, v, MatrixMulVector(m, v))

\* p.subtract_origin()
SubtractOrigin(p) == Done("subtract_origin", p, p, subtract_origin(p))

\* &v * rhs
ScaleVector(v, rhs) == Done("vector_mul", v, rhs, VectorMul(v, rhs))

\* v.normalize()
Normalize(v) == Done("normalize", v, v, normalize(v))

\* u.cross(v)
Cross(u, v) == Done("cross", u, v, cross(u, v))

\* v.reflect(&n)
Reflect(v, n) == Done("reflect", v, n, reflect(v, n))

NextKernel ==
    \/ \E a \in KernelTuples, b \in KernelTuples : TupleAddOp(a, b)
    \/ \E a \in KernelTuples, b \in KernelTuples : TupleSubOp(a, b)
    \/ \E a \in KernelTuples : TupleNegOp(a)
    \/ \E a \in KernelTuples, rhs \in KernelScalars : TupleMulOp(a, rhs)
    \/ \E a \in KernelTuples, rhs \in KernelScalars : TupleDivOp(a, rhs)
    \/ \E m \in KernelMatrices, a \in KernelTuples : MatrixTimesTuple(m, a)
    \/ \E m \in KernelMatrices, p \in SpacePoints : MatrixTimesPoint(m, p)
    \/ \E m \in KernelMatrices, v \in KernelVectors : MatrixTimesVector(m, v)
    \/ \E p \in SpacePoints, v \in KernelVectors : AddVector(p, v)
    \/ \E p \in SpacePoints, q \in SpacePoints : SubPoint(p, q)
    \/ \E p \in SpacePoints, v \in KernelVectors : SubVector(p, v)
    \/ \E u \in KernelVectors, v \in KernelVectors : AddVectors(u, v)
    \/ \E u \in KernelVectors, v \in KernelVectors : SubVectors(u, v)
    \/ \E p \in SpacePoints : SubtractOrigin(p)
    \/ \E v \in KernelVectors, rhs \in KernelScalars : ScaleVector(v, rhs)
    \/ \E v \in KernelVectors : Normalize(v)
    \/ \E u \in KernelVectors, v \in KernelVectors : Cross(u, v)
    \/ \E v \in KernelVectors, n \in KernelVectors : Reflect(v, n)

SpecKernel == Init /\ [][NextKernel]_vars

(***************************************************************************)
(* The IDENTITY_MATRIX cell and the matrices made from it (matrix.rs 6-18,  *)
(* 122-136, shape.rs 59-64).  A Matrix owns its Vec of values, so here a    *)
(* matrix is an object of the heap and a reference is its address:          *)
(* identity_matrix() hands out the address the cell holds, clone() makes a  *)
(* new object, and set() changes the object it is called on.               *)
(***************************************************************************)
\* the most Matrix objects alive at once, the one of the cell included
MaxObjects == 3

\* OnceCell::get_or_init in identity_matrix(): the first call makes the matrix
GetOrInit(h) ==
    IF h.cell # 0 THEN [heap |-> h, ref |-> h.cell]
    ELSE [heap |-> [cell |-> Len(h.objects) + 1,
                    objects |-> Append(h.objects, identity_matrix)],
          ref |-> Len(h.objects) + 1]

\* a faulty clone: the same object again
CloneAliased(h, ref) == [heap |-> h, ref |-> ref]

\* #[derive(Clone)] for Matrix: a new object with a copy of the values
Clone(h, ref) ==
    [heap |-> [h EXCEPT !.objects = Append(@, h.objects[ref])],
     ref |-> Len(h.objects) + 1]

\* identity_matrix().clone(), as in Matrix::translation, Matrix::scaling and
\* Sphere::new (to_owned)
IdentityClone(h) == Bind(GetOrInit(h), LAMBDA got : Clone(got.heap, got.ref))

\* result.set(row, col, value) on the object at ref
SetAt(h, ref, row, col, value) ==
    [h EXCEPT !.objects[ref] = set(@, row, col, value)]

\* the matrices a caller owns: every object but the one of the cell
Owned == { ref \in 1 .. Len(heap.objects) : ref # heap.cell }

Allocates == Len(heap.objects) + 2 <= MaxObjects \/ (heap.cell # 0 /\ Len(heap.objects) < MaxObjects)

Returned(op, h, ref) ==
    /\ Running
    /\ heap' = h
    /\ result' = [op |-> op, panicked |-> FALSE, ret |-> ref]
    /\ UNCHANGED << shapes, items, added, canvas, driver, written >>

\* identity_matrix()
IdentityMatrix ==
    /\ heap.cell # 0 \/ Len(heap.objects) < MaxObjects
    /\ \E got \in { GetOrInit(heap) } : Returned("identity_matrix", got.heap, got.ref)

\* Matrix::translation(x, y, z)
Translation(t) ==
    /\ Allocates
    /\ \E made \in { IdentityClone(heap) } :
         Returned("translation",
                  SetAt(SetAt(SetAt(made.heap, made.ref, 0, 3, t[1]), made.ref, 1, 3, t[2]),
                        made.ref, 2, 3, t[3]),
                  made.ref)

\* Matrix::scaling(x, y, z)
Scaling(t) ==
    /\ Allocates
    /\ \E made \in { IdentityClone(heap) } :
         Returned("scaling",
                  SetAt(SetAt(SetAt(made.heap, made.ref, 0, 0, t[1]), made.ref, 1, 1, t[2]),
                        made.ref, 2, 2, t[3]),
                  made.ref)

\* Sphere::new(): ret is the transformation of the new sphere
SphereNewCall ==
    /\ Allocates
    /\ \E made \in { IdentityClone(heap) } : Returned("sphere_new", made.heap, made.ref)

\* m.set(row, col, value) and sphere.transformation().set(row, col, value), m and
\* the sphere owned by the caller
SetOwned(ref, row, col, value) ==
    /\ ref \in Owned
    /\ Returned("set", SetAt(heap, ref, row, col, value), ref)

\* the matrix goes out of scope
Drop(ref) ==
    /\ Running
    /\ ref \in Owned
    /\ ref = Len(heap.objects)
    /\ heap' = [heap EXCEPT !.objects = SubSeq(@, 1, ref - 1)]
    /\ result' = [op |-> "drop", panicked |-> FALSE, ret |-> ref]
    /\ UNCHANGED << shapes, items, added, canvas, driver, written >>

\* the arguments of test_translation and test_scaling
HeapTriples == { << I(5), I(-3), I(2) >>, << I(2), I(3), I(4) >> }

\* the cells written: a corner, a cell of the translation column, the last cell
HeapCells == { << 0, 0 >>, << 1, 3 >>, << 3, 3 >> }

NextHeap ==
    \/ IdentityMatrix
    \/ \E t \in HeapTriples : Translation(t)
    \/ \E t \in HeapTriples : Scaling(t)
    \/ SphereNewCall
    \/ \E ref \in 1 .. MaxObjects, cell \in HeapCells : SetOwned(ref, cell[1], cell[2], I(9))
    \/ \E ref \in 1 .. MaxObjects : Drop(ref)

SpecHeap == Init /\ [][NextHeap]_vars

(***************************************************************************)
(* examples/shading.rs and examples/shading_parallel.rs: one sphere, one    *)
(* light, one ray for each pixel of a square canvas.                       *)
(***************************************************************************)
\* canvas_pixels (512 in the examples)
CanvasPixels == 4

\* the sphere of the examples: ambient 0.5, shininess 10, colour (1, 0.1, 0)
DriverShape ==
    [SphereNew EXCEPT !.material.ambient = Half, !.material.shininess = I(10),
                      !.material.color = ColorNew(One, Q(1, 10), Zero)]

DriverLight == PointLightNew(P3(-10, 10, -10), ColorNew(One, One, One))

\* the ray of pixel (x, y): from the origin (0, 0, -5) to the wall at z = 10.  The
\* direction is kept at its full length: the examples normalize it, which
\* divides the t of every intersection by that length and leaves their number
\* and their signs as they are
PixelRay(x, y) ==
    LET origin == P3(0, 0, -5)
        pixel_size == FDiv(I(7), I(CanvasPixels))
        half == FDiv(I(7), Two)
        world_y == FSub(half, FMul(pixel_size, I(y)))
        world_x == FAdd(FNeg(half), FMul(pixel_size, I(x)))
        pos == PointNew(world_x, world_y, I(10))
    IN  RayNew(origin, PointSubPoint(pos, origin))

\* the colour Material::lighting returns at the hit of a ray, kept as the call
\* that computes it
Shaded(ray, shape, light, t) == [lighting |-> ray.direction, at |-> t]

\* generate_pixel, and the body of the loop of shading.rs
generate_pixel(ray, shape, light) ==
    Bind(hit(AddAll(<< >>, SphereIntersect(shape, ray).v, 1, 1)), LAMBDA h :
        IF h.some THEN Some(Shaded(ray, shape, light, h.v.t)) ELSE None)

\* main of shading.rs from pixel k on, the pixels counted row after row: the
\* two nested loops, a pixel written if its ray has a hit
RECURSIVE SequentialFrom(_, _)
SequentialFrom(c, k) ==
    IF k >= CanvasPixels * CanvasPixels THEN c
    ELSE Bind(generate_pixel(PixelRay(k % CanvasPixels, k \div CanvasPixels),
                             DriverShape, DriverLight), LAMBDA px :
            SequentialFrom(IF px.some
                           THEN write_pixel(c, k % CanvasPixels, k \div CanvasPixels, px.v).v
                           ELSE c,
                           k + 1))

\* the canvas shading.rs ends with
SequentialMain == SequentialFrom(CanvasNew(CanvasPixels, CanvasPixels), 0)

Columns == 0 .. CanvasPixels - 1

\* a faulty collect: each result gets the place it has in the Vec as its x
RECURSIVE CollectedByPlace(_, _, _)
CollectedByPlace(out, y, x) ==
    IF x >= CanvasPixels THEN << >>
    ELSE LET rest == CollectedByPlace(out, y, x + 1)
             n == Cardinality({ k \in 0 .. x - 1 : out[k].some })
         IN  IF out[x].some THEN << << n, y, out[x].v >> >> \o rest ELSE rest

\* filter_map(..).collect() of a row: the (x, y, color) of the pixels with a hit,
\* in the order of x whatever the order the tasks ran in
RECURSIVE Collected(_, _, _)
Collected(out, y, x) ==
    IF x >= CanvasPixels THEN << >>
    ELSE LET rest == Collected(out, y, x + 1)
         IN  IF out[x].some THEN << << x, y, out[x].v >> >> \o rest ELSE rest

\* a row of tasks, none started
RowOf(y, writes) ==
    [phase |-> "parallel", y |-> y, task |-> [x \in Columns |-> "todo"],
     out |-> [x \in Columns |-> None], queue |-> << >>, writes |-> writes]

\* main of shading_parallel.rs up to the pixel map: the canvas, the first row
StartParallel ==
    /\ Running
    /\ driver.phase = "off"
    /\ canvas' = CanvasNew(CanvasPixels, CanvasPixels)
    /\ written' = NoWrites
    /\ driver' = RowOf(0, << >>)
    /\ result' = [op |-> "main", panicked |-> FALSE]
    /\ UNCHANGED << shapes, items, added, heap >>

\* a thread of the pool takes the task of column x
TaskStart(x) ==
    /\ Running
    /\ driver.phase = "parallel"
    /\ driver.task[x] = "todo"
    /\ driver' = [driver EXCEPT !.task[x] = "running"]
    /\ UNCHANGED << shapes, items, added, result, canvas, heap, written >>

\* the closure of column x returns: generate_pixel(&ray, &sh, &l)
TaskFinish(x) ==
    /\ Running
    /\ driver.phase = "parallel"
    /\ driver.task[x] = "running"
    /\ driver' = [driver EXCEPT !.task[x] = "done",
                                !.out[x] = generate_pixel(PixelRay(x, driver.y),
                                                          DriverShape, DriverLight)]
    /\ UNCHANGED << shapes, items, added, result, canvas, heap, written >>

\* collect(): every task of the row is done
CollectRow ==
    /\ Running
    /\ driver.phase = "parallel"
    /\ \A x \in Columns : driver.task[x] = "done"
    /\ driver' = [driver EXCEPT !.phase = "writing",
                                !.queue = Collected(driver.out, driver.y, 0)]
    /\ UNCHANGED << shapes, items, added, result, canvas, heap, written >>

\* for_each(|(x, y, color)| canvas.write_pixel(x, y, color)), one element
WriteNext ==
    /\ Running
    /\ driver.phase = "writing"
    /\ driver.queue # << >>
    /\ \E e \in { Head(driver.queue) } :
       \E w \in { write_pixel(canvas, e[1], e[2], e[3]) } :
          /\ canvas' = IF w.panicked THEN canvas ELSE w.v
          /\ written' = IF w.panicked THEN written
                        ELSE Logged(written, canvas, e[1], e[2], e[3])
          /\ driver' = [driver EXCEPT !.queue = Tail(@),
                                      !.writes = Append(@, << e[1], e[2] >>)]
          /\ result' = [op |-> "write_pixel", panicked |-> w.panicked]
    /\ UNCHANGED << shapes, items, added, heap >>

\* flat_map takes the next y, or the pixel map ends
NextRow ==
    /\ Running
    /\ driver.phase = "writing"
    /\ driver.queue = << >>
    /\ driver' = IF driver.y + 1 < CanvasPixels
                 THEN RowOf(driver.y + 1, driver.writes)
                 ELSE [phase |-> "done", writes |-> driver.writes]
    /\ UNCHANGED << shapes, items, added, result, canvas, heap, written >>

NextDriver ==
    \/ StartParallel
    \/ \E x \in Columns : TaskStart(x)
    \/ \E x \in Columns : TaskFinish(x)
    \/ CollectRow
    \/ WriteNext
    \/ NextRow

SpecDriver == Init /\ [][NextDriver]_vars

(***************************************************************************)
(* A canvas and the calls of canvas.rs on it.                              *)
(***************************************************************************)
\* width and height of the canvases made
CanvasSizes == { << 2, 2 >>, << 3, 1 >> }

\* the coordinates passed, some of them outside every canvas made
CanvasXs == 0 .. 2
CanvasYs == 0 .. 2

\* c1 and c2 of test_ppm_pixel_data
CanvasColors == { ColorNew(Q(3, 2), Zero, Zero), ColorNew(Zero, Half, Zero) }

\* Canvas::new(width, height)
NewCanvas(width, height) ==
    /\ Running
    /\ canvas' = CanvasNew(width, height)
    /\ written' = NoWrites
    /\ result' = [op |-> "canvas_new", panicked |-> FALSE]
    /\ UNCHANGED << shapes, items, added, driver, heap >>

\* canvas.write_pixel(x, y, color)
WritePixel(x, y, color) ==
    /\ Running
    /\ \E w \in { write_pixel(canvas, x, y, color) } :
          /\ canvas' = IF w.panicked THEN canvas ELSE w.v
          /\ written' = IF w.panicked THEN written ELSE Logged(written, canvas, x, y, color)
          /\ result' = [op |-> "write_pixel", panicked |-> w.panicked,
                        x |-> x, y |-> y, color |-> color]
    /\ UNCHANGED << shapes, items, added, driver, heap >>

\* canvas.pixel_at(x, y)
PixelAt(x, y) ==
    /\ Running
    /\ \E r \in { pixel_at(canvas, x, y) } :
          result' = [op |-> "pixel_at", panicked |-> r.panicked, x |-> x, y |-> y,
                     ret |-> IF r.panicked THEN None ELSE Some(r.v)]
    /\ UNCHANGED << shapes, items, added, canvas, driver, heap, written >>

NextCanvas ==
    \/ \E size \in CanvasSizes : NewCanvas(size[1], size[2])
    \/ \E x \in CanvasXs, y \in CanvasYs, color \in CanvasColors : WritePixel(x, y, color)
    \/ \E x \in CanvasXs, y \in CanvasYs : PixelAt(x, y)

SpecCanvas == Init /\ [][NextCanvas]_vars

(***************************************************************************)
(* ppm.rs.  A String and the bytes of the sink are sequences of characters. *)
(***************************************************************************)
\* f64::round: to the nearest integer, halfway cases away from zero
FRound(x) ==
    IF ~IsFinite(x) \/ IsZero(x) THEN x
    ELSE LET r == (2 * Abs(x.n) + x.d) \div (2 * x.d)
         IN  IF r = 0 THEN MkZero(x.n < 0) ELSE I(IF x.n < 0 THEN -r ELSE r)

\* a faulty clamp_int: the value cut to an integer, not rounded
ClampIntTruncated(f) ==
    LET v == FMul(f, I(255))
    IN  IF IsNaN(v) THEN 0
        ELSE IF FLt(v, Zero) THEN 0
        ELSE IF FLt(I(255), v) THEN 255
        ELSE v.n \div v.d

\* clamp_int: (f * 255).round(), then 0 below 0, 255 above 255, else `as u16`
\* (which takes NaN and -0.0 to 0)
clamp_int(f) ==
    LET v == FRound(FMul(f, I(255)))
    IN  IF FLt(v, Zero) THEN 0
        ELSE IF FLt(I(255), v) THEN 255
        ELSE IF IsNaN(v) THEN 0
        ELSE v.n

DigitChars == << "0", "1", "2", "3", "4", "5", "6", "7", "8", "9" >>

\* to_string of an unsigned integer
RECURSIVE ToDigits(_)
ToDigits(n) ==
    IF n < 10 THEN << DigitChars[n + 1] >>
    ELSE Append(ToDigits(n \div 10), DigitChars[(n % 10) + 1])

\* writeln!(sink, "{}", line)
Writeln(sink, line) == sink \o line \o << "\n" >>

\* the tokens of a row from column col on: red, green, blue of each pixel
RECURSIVE RowTokens(_, _, _)
RowTokens(c, row, col) ==
    IF col >= c.width THEN << >>
    ELSE Bind(pixel_at(c, col, row).v, LAMBDA pixel :
            << ToDigits(clamp_int(pixel.r)), ToDigits(clamp_int(pixel.g)),
               ToDigits(clamp_int(pixel.b)) >> \o RowTokens(c, row, col + 1))

\* a faulty line loop: a line is ended when the token takes it beyond 70
RECURSIVE WrapTokensLate(_, _, _, _)
WrapTokensLate(sink, line, tokens, k) ==
    IF k > Len(tokens) THEN (IF line # << >> THEN Writeln(sink, line) ELSE sink)
    ELSE LET joined == IF line = << >> THEN tokens[k] ELSE line \o << " " >> \o tokens[k]
         IN  IF Len(joined) > 70
             THEN WrapTokensLate(Writeln(sink, joined), << >>, tokens, k + 1)
             ELSE WrapTokensLate(sink, joined, tokens, k + 1)

\* the loop over the tokens of a row, from token k on, and the last line of the row
RECURSIVE WrapTokens(_, _, _, _)
WrapTokens(sink, line, tokens, k) ==
    IF k > Len(tokens) THEN (IF line # << >> THEN Writeln(sink, line) ELSE sink)
    ELSE LET wraps == Len(line) + Len(tokens[k]) + 2 > 70
             sink1 == IF wraps THEN Writeln(sink, line) ELSE sink
             line1 == IF wraps THEN << >> ELSE line
         IN  WrapTokens(sink1,
                        IF line1 = << >> THEN tokens[k] ELSE line1 \o << " " >> \o tokens[k],
                        tokens, k + 1)

\* the loop over the rows, from row on
RECURSIVE WriteRows(_, _, _)
WriteRows(c, sink, row) ==
    IF row >= c.height THEN sink
    ELSE WriteRows(c, WrapTokens(sink, << >>, RowTokens(c, row, 0), 1), row + 1)

\* Canvas::write_ppm into an empty, unfailing sink
write_ppm(c) ==
    WriteRows(c,
              Writeln(Writeln(Writeln(<< >>, << "P", "3" >>),
                              ToDigits(c.width) \o << " " >> \o ToDigits(c.height)),
                      << "2", "5", "5" >>),
              0)

\* a canvas wide enough for a row of more than 70 characters, and a square one
PpmSizes == { << 6, 1 >>, << 2, 2 >> }

\* the colour of test_ppm_line_wrap, and the channel values 1.5, 0.5 and -0.5 of
\* test_ppm_pixel_data
PpmColors == { ColorNew(One, Q(4, 5), Q(3, 5)), ColorNew(Q(3, 2), Half, Q(-1, 2)) }

\* canvas.write_ppm(&mut bytes)
WritePpm ==
    /\ Running
    /\ result' = [op |-> "write_ppm", panicked |-> FALSE, ret |-> write_ppm(canvas)]
    /\ UNCHANGED << shapes, items, added, canvas, driver, heap, written >>

NextPpm ==
    \/ \E size \in PpmSizes : NewCanvas(size[1], size[2])
    \/ \E x \in 0 .. 5, y \in 0 .. 1, color \in PpmColors : WritePixel(x, y, color)
    \/ WritePpm

SpecPpm == Init /\ [][NextPpm]_vars

(***************************************************************************)
(* A Vector and what the public items of space.rs and matrix.rs make of it: *)
(* each call takes the Vector the last call returned.                      *)
(***************************************************************************)
\* the most calls chained on one Vector
MaxSteps == 2

VectorSeeds == { V3(1, 2, 3), V3(0, 1, 0), V3(1, 1, 1) }

\* tuples of any w, as Tuple::new makes them
AnyTuples == { TupleNew(One, Two, I(3), One), TupleNew(One, Zero, Zero, I(-4)) }

VectorScalars == { Two, Q(7, 2), Inf }

VectorMatrices == { translation(I(5), I(-3), I(2)), ProductA }

HasVector == "kind" \in DOMAIN result /\ result.kind = "vector"

\* the first call on a Vector: it is made
First(op, v) ==
    /\ Running
    /\ result' = [op |-> op, panicked |-> FALSE, kind |-> "vector", ret |-> v,
                  steps |-> 1, plain |-> TRUE]
    /\ UNCHANGED << shapes, items, added, canvas, driver, heap, written >>

\* a further call on the Vector v: ret is the Vector it returns, or v after an
\* assignment.  plain: no assignment through DerefMut and no infinite scalar so far
Then(op, v, plain) ==
    /\ Running
    /\ HasVector
    /\ result.steps < MaxSteps
    /\ result' = [op |-> op, panicked |-> FALSE, kind |-> "vector", ret |-> v,
                  steps |-> result.steps + 1, plain |-> result.plain /\ plain]
    /\ UNCHANGED << shapes, items, added, canvas, driver, heap, written >>

\* Vector::new(x, y, z), Tuple::vector(x, y, z)
MakeVector(v) == First("vector_new", VectorNew(v.x, v.y, v.z))

\* Vector::from(t)
MakeFromTuple(t) == First("vector_from", VectorFromTuple(t))

\* p - q
MakeDifference(p, q) == First("point_sub_point", PointSubPoint(p, q))

\* p.subtract_origin()
MakeFromPoint(p) == First("subtract_origin", subtract_origin(p))

\* v + u, v - u
ThenAdd(u) == Then("vector_add", VectorAdd(result.ret, u), TRUE)
ThenSub(u) == Then("vector_sub", VectorSub(result.ret, u), TRUE)

\* v * rhs
ThenMul(rhs) == Then("vector_mul", VectorMul(result.ret, rhs), IsFinite(rhs))

\* v.normalize(), v.cross(u), v.reflect(&n)
ThenNormalize == Then("normalize", normalize(result.ret), TRUE)
ThenCross(u) == Then("cross", cross(result.ret, u), TRUE)
ThenReflect(n) == Then("reflect", reflect(result.ret, n), TRUE)

\* &m * v
ThenMatrix(m) == Then("matrix_mul_vector", MatrixMulVector(m, result.ret), TRUE)

\* v.translate(..), v.scale(..), v.shear(..), v.rotate_z(..)
ThenTranslate == Then("translate", translate(result.ret, I(5), I(-3), Two), TRUE)
ThenScale == Then("scale", scale(result.ret, Two, I(3), I(4)), TRUE)
ThenShear == Then("shear", shear(result.ret, One, Zero, Zero, Two, Zero, Zero), TRUE)
ThenRotate == Then("rotate_z", rotate_z(result.ret, "PI/2"), TRUE)

\* *v = t, through DerefMut
ThenAssign(t) == Then("deref_mut", t, FALSE)

\* v.dot(n)
ThenDot(n) ==
    /\ Running
    /\ HasVector
    /\ result' = [op |-> "dot", panicked |-> FALSE, kind |-> "scalar", a |-> result.ret,
                  b |-> n, ret |-> dot(result.ret, n), steps |-> result.steps,
                  plain |-> result.plain]
    /\ UNCHANGED << shapes, items, added, canvas, driver, heap, written >>

NextVector ==
    \/ \E v \in VectorSeeds : MakeVector(v)
    \/ \E t \in AnyTuples : MakeFromTuple(t)
    \/ \E p \in ChainPoints, q \in ChainPoints : MakeDifference(p, q)
    \/ \E p \in ChainPoints : MakeFromPoint(p)
    \/ \E u \in VectorSeeds : ThenAdd(u)
    \/ \E u \in VectorSeeds : ThenSub(u)
    \/ \E rhs \in VectorScalars : ThenMul(rhs)
    \/ ThenNormalize
    \/ \E u \in VectorSeeds : ThenCross(u)
    \/ \E n \in VectorSeeds : ThenReflect(n)
    \/ \E m \in VectorMatrices : ThenMatrix(m)
    \/ ThenTranslate
    \/ ThenScale
    \/ ThenShear
    \/ ThenRotate
    \/ \E t \in AnyTuples : ThenAssign(t)
    \/ \E n \in VectorSeeds : ThenDot(n)

SpecVector == Init /\ [][NextVector]_vars

(***************************************************************************)
(* canvas.rs, plot_point.  A usize is written as its 64 bits read as an    *)
(* isize: usize::MAX is -1, and every other value met here is small.       *)
(***************************************************************************)
\* f.round() as usize: the cast saturates, NaN gives 0
RoundAsUsize(f) ==
    LET r == FRound(f)
    IN  IF IsNaN(r) THEN 0
        ELSE IF r = Inf THEN -1
        ELSE IF r = NegInf \/ IsZero(r) \/ r.n < 0 THEN 0
        ELSE r.n

\* the calls self.write_pixel(px, py, *color) of the two loops, in order
RECURSIVE PlotCells(_, _, _)
PlotCells(c, cells, color) ==
    IF cells = << >> THEN Ok(c)
    ELSE LET w == write_pixel(c, Head(cells)[1], Head(cells)[2], color)
         IN  IF w.panicked THEN Panic ELSE PlotCells(w.v, Tail(cells), color)

\* the pixels of px in xmin..xmax + 1, py in ymin..ymax + 1, px outermost
CellsOf(xmin, xmax, ymin, ymax) ==
    IF xmin > xmax \/ ymin > ymax THEN << >>
    ELSE [k \in 1..((xmax - xmin + 1) * (ymax - ymin + 1)) |->
            << xmin + ((k - 1) \div (ymax - ymin + 1)), ymin + ((k - 1) % (ymax - ymin + 1)) >>]

\* the pixels plot_point writes for the casts x and y (neither of them usize::MAX + 1)
PlotCellsFor(c, x, y) ==
    CellsOf(IF x - 1 > 0 THEN x - 1 ELSE 0,
            IF x + 1 < c.width - 1 THEN x + 1 ELSE c.width - 1,
            IF y - 1 > 0 THEN y - 1 ELSE 0,
            IF y + 1 < c.height - 1 THEN y + 1 ELSE c.height - 1)

\* Canvas::plot_point, for width >= 1 and height >= 1.  x + 1 and y + 1 overflow
\* for usize::MAX: a panic where overflow is checked (debug), 0 where it is not
plot_point(c, point, color, checked) ==
    LET x == RoundAsUsize(point.x)
        y == RoundAsUsize(point.y)
    IN  IF checked /\ (x = -1 \/ y = -1) THEN [panicked |-> TRUE, cells |-> << >>]
        ELSE LET cells == PlotCellsFor(c, x, y)
                 w == PlotCells(c, cells, color)
             IN  IF w.panicked THEN [panicked |-> TRUE, cells |-> cells]
                 ELSE [panicked |-> FALSE, v |-> w.v, cells |-> cells]

PlotSizes == { << 4, 3 >>, << 1, 1 >> }

PlotXs == { I(-5), I(-1), Q(-2, 5), Q(3, 2), I(4), I(6), Inf, NaN }

PlotYs == { I(-5), Zero, I(3), Inf }

PlotColor == ColorNew(One, Half, Zero)

\* canvas.plot_point(&point, &color)
PlotPoint(point, color, checked) ==
    /\ Running
    /\ canvas.width >= 1
    /\ canvas.height >= 1
    /\ \E r \in { plot_point(canvas, point, color, checked) } :
       \E wrote \in { { r.cells[k] : k \in DOMAIN r.cells } } :
          /\ canvas' = IF r.panicked THEN canvas ELSE r.v
          /\ written' = IF r.panicked THEN written
                        ELSE [last |-> [p \in wrote |-> color] @@ written.last,
                              strayed |-> written.strayed]
          /\ result' = [op |-> "plot_point", panicked |-> r.panicked, point |-> point,
                        before |-> canvas, wrote |-> wrote]
    /\ UNCHANGED << shapes, items, added, driver, heap >>

NextPlot ==
    \/ \E size \in PlotSizes : NewCanvas(size[1], size[2])
    \/ \E x \in PlotXs, y \in PlotYs, checked \in BOOLEAN :
          PlotPoint(PointNew(x, y, Zero), PlotColor, checked)
    \/ \E x \in 0..3, y \in 0..2 : PixelAt(x, y)

SpecPlot == Init /\ [][NextPlot]_vars

(***************************************************************************)
(* Claims about Intersections                                              *)
(***************************************************************************)
\* the records added so far whose t is >= 0
NonNegative == {k \in 1 .. Len(added) : FGe(added[k].t, Zero)}

\* C1 (as claimed): hit() returns a record added whose t is the least of the
\* added t values that are >= 0, and None exactly when every added t is negative
C1_HitIsLowestNonNegative ==
    result.op = "hit" =>
        /\ result.ret.some <=> NonNegative # {}
        /\ result.ret.some =>
              /\ \E k \in NonNegative : added[k] = result.ret.v
              /\ \A k \in NonNegative : FLe(result.ret.v.t, added[k].t)

\* C2 (as claimed): into_iter() yields the records in non-decreasing order of t
C2_IterationAscending ==
    result.op = "into_iter" =>
        \A k \in 1 .. Len(result.ret) - 1 : FLe(result.ret[k].t, result.ret[k + 1].t)

(***************************************************************************)
(* Claims about Shape::intersect and Shape::normal_at                       *)
(***************************************************************************)
Range(seq) == {seq[k] : k \in DOMAIN seq}
Count(seq, x) == Cardinality({k \in DOMAIN seq : seq[k] = x})

\* the same records, each as many times
SameBag(a, b) ==
    /\ Len(a) = Len(b)
    /\ \A x \in Range(a) \cup Range(b) : Count(a, x) = Count(b, x)

\* the geometric dot product and cross product of the x, y, z components
Dot3(u, v) == FAdd(FAdd(FMul(u.x, v.x), FMul(u.y, v.y)), FMul(u.z, v.z))

Cross3(u, v) ==
    TupleNew(FSub(FMul(u.y, v.z), FMul(u.z, v.y)),
             FSub(FMul(u.z, v.x), FMul(u.x, v.z)),
             FSub(FMul(u.x, v.y), FMul(u.y, v.x)),
             Zero)

TupleExactEq(a, b) == FEq(a.x, b.x) /\ FEq(a.y, b.y) /\ FEq(a.z, b.z) /\ FEq(a.w, b.w)

NonZeroDirection(ray) ==
    ~(IsZero(ray.direction.x) /\ IsZero(ray.direction.y) /\ IsZero(ray.direction.z))

\* |o + t * d|^2 - 1
Residual(o, d, t) ==
    LET at == TupleNew(FAdd(o.x, FMul(t, d.x)), FAdd(o.y, FMul(t, d.y)),
                       FAdd(o.z, FMul(t, d.z)), Zero)
    IN  FSub(Dot3(at, at), One)

\* the ray in object space and the quadratic a*t^2 + b*t + c it gives against the
\* unit sphere at the origin
Quadratic(sphere, ray) ==
    Bind(inverse(sphere.transformation), LAMBDA it :
    Bind(MatrixMulTuple(it.v, ray.origin), LAMBDA o :
    Bind(MatrixMulTuple(it.v, ray.direction), LAMBDA d :
        [o |-> o, d |-> d,
         a |-> Dot3(d, d), b |-> FMul(Two, Dot3(o, d)), c |-> FSub(Dot3(o, o), One)])))

Discriminant(q) == FSub(FMul(q.b, q.b), FMul(FMul(I(4), q.a), q.c))

\* the square root of x is computed without rounding
SqrtIsExact(x) == IsFinite(x) /\ ~SignNeg(x) /\ IsSquare(x.n) /\ IsSquare(x.d)

\* what the rounding of a square root to 1 / SqrtDen can leave of |p|^2 - 1 in
\* these scenes
RootTol == Q(1, 100)

\* a call of Shape::intersect that returned, and the records it added in order
IntersectStep == result'.op = "intersect" /\ ~result'.panicked
NewRecords == SubSeq(added', Len(added) + 1, Len(added'))

IntersectAdds ==
    /\ Len(added') >= Len(added)
    /\ SubSeq(added', 1, Len(added)) = added
    /\ Bind(Quadratic(shapes[result'.shape], result'.ray), LAMBDA q :
            Len(NewRecords) = IF FLt(Discriminant(q), Zero) THEN 0 ELSE 2)
    /\ \A k \in 1 .. Len(NewRecords) : NewRecords[k].shape = result'.shape
    /\ SameBag(items', items \o NewRecords)
    /\ shapes' = shapes

IntersectOrdered == Len(NewRecords) = 2 => FLe(NewRecords[1].t, NewRecords[2].t)

\* C3 (as claimed): Shape::intersect adds no record when the discriminant is
\* negative and two otherwise, the first with t <= the second, each referring to
\* the intersected shape; the records already there are kept and the shape is
\* not modified.
C3_IntersectAddsOrderedPair ==
    [][IntersectStep => (IntersectAdds /\ IntersectOrdered)]_vars

\* C3, for a ray with a direction: the same, the order of the two t values asked
\* only of a ray whose direction is not the zero vector (a zero direction makes
\* a = 0 and both t values NaN, and NaN <= NaN is false).
C3_IntersectAddsPair ==
    [][IntersectStep =>
          /\ IntersectAdds
          /\ NonZeroDirection(result'.ray) => IntersectOrdered]_vars

\* a second sphere was intersected through a collection that held two records
C3_Witness ==
    /\ result.op = "intersect"
    /\ ~result.panicked
    /\ Len(items) = 4
    /\ Len(added) = 4
    /\ added[1].shape # added[3].shape
    /\ added[3].shape = result.shape
    /\ FLt(added[3].t, added[4].t)

R1 == RayNew(P3(0, 0, -5), V3(0, 0, 1))
R2 == RayNew(P3(0, 1, -5), V3(0, 0, 1))

C4Cases(M, ray, ts) ==
    /\ (M = identity_matrix /\ ray = R1) => ts = << I(4), I(6) >>
    /\ (M = identity_matrix /\ ray = R2) => ts = << I(5), I(5) >>
    /\ (M = scaling(Two, Two, Two) /\ ray = R1) => ts = << I(3), I(7) >>
    /\ (M = translation(I(5), Zero, Zero) /\ ray = R1) => ts = << >>

C4Roots(M, ray, ts) ==
    Bind(Quadratic([transformation |-> M], ray), LAMBDA q :
        /\ TupleExactEq(MatrixMulTuple(M, q.o), ray.origin)
        /\ TupleExactEq(MatrixMulTuple(M, q.d), ray.direction)
        /\ IF FLt(Discriminant(q), Zero)
           THEN ts = << >>
           ELSE /\ Len(ts) = 2
                /\ \A k \in 1 .. 2 : FLe(FAbs(Residual(q.o, q.d, ts[k])), RootTol)
                /\ SqrtIsExact(Discriminant(q)) =>
                      \A k \in 1 .. 2 : IsZero(Residual(q.o, q.d, ts[k]))
                /\ FEq(FMul(q.a, FAdd(ts[1], ts[2])), FNeg(q.b))
                /\ FLe(ts[1], ts[2]))

\* C4: for a ray with a non-zero direction the t values emitted are the real
\* roots of |M^-1 * origin + t * M^-1 * direction|^2 = 1: none when there is no
\* real root, else both roots in order (to RootTol where the square root is
\* rounded, exactly where it is not); 4 and 6, 5 and 5, 3 and 7, and none for the
\* four rays and spheres of the tests.
C4_EmittedTsAreObjectSpaceRoots ==
    [][(IntersectStep /\ NonZeroDirection(result'.ray)) =>
          LET M == shapes[result'.shape].transformation
              ts == [k \in 1 .. Len(NewRecords) |-> NewRecords[k].t]
          IN  C4Roots(M, result'.ray, ts) /\ C4Cases(M, result'.ray, ts)]_vars

\* the scaled sphere was hit at 3 and 7
C4_Witness ==
    /\ result.op = "intersect"
    /\ ~result.panicked
    /\ shapes[result.shape].transformation = scaling(Two, Two, Two)
    /\ result.ray = R1
    /\ Len(added) = 2
    /\ added[1].t = I(3)
    /\ added[2].t = I(7)

\* C5: on a sphere whose transformation has determinant 0, intersect and
\* normal_at panic, and intersect has added no record.
C5_SingularTransformationPanics ==
    [][(/\ result'.op \in {"intersect", "normal_at"}
        /\ FEq(determinant(shapes[result'.shape].transformation), Zero)) =>
          /\ result'.panicked
          /\ items' = items
          /\ added' = added]_vars

\* intersect panicked on the singular sphere, the collection holding two records
C5_Witness ==
    /\ result.op = "intersect"
    /\ result.panicked
    /\ FEq(determinant(shapes[result.shape].transformation), Zero)
    /\ Len(items) = 2

NormTol == Q(1, 100)

Axes == { TupleNew(One, Zero, Zero, Zero), TupleNew(Zero, One, Zero, Zero),
          TupleNew(Zero, Zero, One, Zero) }

NotCentre(M, p) == ~TupleExactEq(MatrixMulTuple(M, PointNew(Zero, Zero, Zero)), p)

C6Normal(M, p, ret) ==
    Bind(inverse(M), LAMBDA it :
    Bind([MatrixMulTuple(it.v, p) EXCEPT !.w = Zero], LAMBDA v :
    Bind(MatrixMulVector(transpose(it.v), v), LAMBDA wn :
        /\ ret = normalize(wn)
        /\ IsZero(ret.w)
        /\ FLe(FAbs(FSub(Dot3(ret, ret), One)), NormTol)
        /\ SqrtIsExact(Dot3(wn, wn)) => FEq(Dot3(ret, ret), One)
        /\ \A e \in Axes : IsZero(Dot3(ret, MatrixMulTuple(M, Cross3(v, e))))
        /\ FLt(Zero, Dot3(ret, MatrixMulTuple(M, v))))))

\* C6: at a point p that is not the centre, normal_at(p) is
\* normalize(transpose(M^-1) * v), v being M^-1 * p with w set to 0: a vector with
\* w = 0 and magnitude 1 (to NormTol where the square root is rounded), at right
\* angles to the surface through p and pointing outwards whatever the
\* translation in M; (1, 0, 0) at (1, 0, 0) on the default sphere.
C6_NormalIsUnitInverseTranspose ==
    (result.op = "normal_at" /\ ~result.panicked
        /\ NotCentre(shapes[result.shape].transformation, result.p)) =>
        /\ C6Normal(shapes[result.shape].transformation, result.p, result.ret)
        /\ (shapes[result.shape].transformation = identity_matrix
               /\ result.p = P3(1, 0, 0)) => result.ret = V3(1, 0, 0)
        /\ (shapes[result.shape].transformation = translation(Zero, One, Zero)
               /\ result.p = P3(0, 2, 0)) => result.ret = V3(0, 1, 0)

\* the normal of the sheared sphere at (3, 0, 4) leans against the shear
C6_Witness ==
    /\ result.op = "normal_at"
    /\ ~result.panicked
    /\ shapes[result.shape].transformation = shearing(One, Zero, Zero, Zero, Zero, Zero)
    /\ result.p = P3(3, 0, 4)
    /\ FLt(result.ret.y, Zero)

(***************************************************************************)
(* Claims about Material::lighting                                         *)
(***************************************************************************)
Black == ColorNew(Zero, Zero, Zero)

ColorExactEq(a, b) == FEq(a.r, b.r) /\ FEq(a.g, b.g) /\ FEq(a.b, b.b)

ColorNear(a, b, tol) ==
    /\ FLe(FAbs(FSub(a.r, b.r)), tol)
    /\ FLe(FAbs(FSub(a.g, b.g)), tol)
    /\ FLe(FAbs(FSub(a.b, b.b)), tol)

\* v - n * (2 * (v . n))
Reflect3(v, n) == TupleSub(v, TupleMul(n, FMul(Two, Dot3(v, n))))

\* the three terms of the Phong model
Phong(m, light, pos, eyev, normalv) ==
    Bind(ColorMul(m.color, light.intensity), LAMBDA effective :
    Bind(normalize(TupleSub(light.position, pos)), LAMBDA lightv :
    Bind(Dot3(lightv, normalv), LAMBDA light_dot_normal :
    Bind(Dot3(Reflect3(TupleNeg(lightv), normalv), eyev), LAMBDA reflect_dot_eye :
        [ambient |-> ColorMulScalar(effective, m.ambient),
         diffuse |->
            IF FLt(light_dot_normal, Zero) THEN Black
            ELSE ColorMulScalar(effective, FMul(m.diffuse, light_dot_normal)),
         specular |->
            IF FLt(light_dot_normal, Zero) \/ FLe(reflect_dot_eye, Zero) THEN Black
            ELSE ColorMulScalar(light.intensity,
                                FMul(m.specular, FPowf(reflect_dot_eye, m.shininess)))]))))

\* the lighting of the tests: the surface at the origin facing (0, 0, -1), seen
\* from (0, 0, -1), a default material, a white light at (x, y, z)
TestLighting(x, y, z) ==
    /\ result.op = "lighting"
    /\ shapes[result.shape].material = MaterialNew
    /\ result.light = PointLightNew(P3(x, y, z), White)
    /\ result.position = P3(0, 0, 0)
    /\ result.eyev = V3(0, 0, -1)
    /\ result.normalv = V3(0, 0, -1)

\* C7: lighting returns ambient + diffuse + specular, not clamped: ambient is
\* color * intensity * ambient; diffuse and specular are black when the light
\* is behind the surface, else diffuse is color * intensity * diffuse *
\* dot(lightv, normal) and specular is black when the reflection points away
\* from the eye; (1.9, 1.9, 1.9) with the light at (0, 0, -10) and
\* (0.1, 0.1, 0.1) with the light at (0, 0, 10).
C7_LightingIsSumOfTerms ==
    result.op = "lighting" =>
        /\ Bind(Phong(shapes[result.shape].material, result.light, result.position,
                      result.eyev, result.normalv), LAMBDA e :
              ColorExactEq(result.ret, ColorAdd(ColorAdd(e.ambient, e.diffuse), e.specular)))
        /\ TestLighting(0, 0, -10) =>
              ColorExactEq(result.ret, ColorNew(Q(19, 10), Q(19, 10), Q(19, 10)))
        /\ TestLighting(0, 0, 10) =>
              ColorExactEq(result.ret, ColorNew(Q(1, 10), Q(1, 10), Q(1, 10)))

\* the eye between the light and the surface: every channel above 1
C7_Witness ==
    /\ TestLighting(0, 0, -10)
    /\ result.ret = ColorNew(Q(19, 10), Q(19, 10), Q(19, 10))

ShadeTol == Q(1, 10000)

InverseCells(m, inv) ==
    Bind(determinant(m), LAMBDA det :
        /\ inv.rows = m.rows
        /\ inv.cols = m.cols
        /\ \A row \in 0 .. m.rows - 1 : \A col \in 0 .. m.cols - 1 :
              get(inv, col, row) = FDiv(cofactor(m, row, col), det))

\* C9: inverse() is None exactly when determinant() == 0, compared exactly as
\* invertible() does; otherwise a matrix of the same size whose cell (col, row)
\* is cofactor(row, col) / determinant; the receiver is not modified.
C9_InverseNoneIffDeterminantZero ==
    [][result'.op = "inverse" =>
          LET m == shapes[result'.shape].transformation
          IN  /\ shapes' = shapes
              /\ result'.ret = None <=> FEq(determinant(m), Zero)
              /\ result'.ret = None <=> ~invertible(m)
              /\ result'.ret # None =>
                    /\ result'.ret.some
                    /\ InverseCells(m, result'.ret.v)]_vars

\* the inverse of the matrix of test_inversion: -160 / 532 in cell (3, 2)
C9_Witness ==
    /\ result.op = "inverse"
    /\ shapes[result.shape].transformation = InversionA
    /\ result.ret.some
    /\ get(result.ret.v, 3, 2) = Q(-160, 532)

\* C10: for an invertible 4x4 matrix M, inverse(M) * M and M * inverse(M) are
\* the identity matrix within EPSILON, and (A * B) * inverse(B) is A for an
\* invertible B; the products are there for every matrix with a determinant
\* other than 0.
C10_InverseProductsAreIdentity ==
    /\ result.op = "inverse_products" =>
          /\ result.panicked <=>
                FEq(determinant(shapes[result.shape].transformation), Zero)
          /\ ~result.panicked =>
                /\ MatrixEq(result.left, identity_matrix)
                /\ MatrixEq(result.right, identity_matrix)
    /\ result.op = "product_times_inverse" =>
          /\ result.panicked <=> FEq(determinant(shapes[2].transformation), Zero)
          /\ ~result.panicked => MatrixEq(result.ret, shapes[1].transformation)

\* the product of test_inverse_multiplication
C10_Witness ==
    /\ result.op = "product_times_inverse"
    /\ ~result.panicked
    /\ shapes[1].transformation = MultiplicationA
    /\ shapes[2].transformation = MultiplicationB
    /\ result.ret.values = MultiplicationA.values

(***************************************************************************)
(* Claims about the cells of a Matrix                                      *)
(***************************************************************************)
CellStep == result'.op \in {"get", "set"}

\* the matrix the access of this step was made on
CellMatrix == shapes[result'.shape].transformation

OutOfRange == result'.row >= CellMatrix.rows \/ result'.col >= CellMatrix.cols

\* the place of cell (row, col) in the row-major values of m
CellAt(m, row, col) == row * m.cols + col + 1

\* C11 (as claimed): get and set panic whenever row >= rows or col >= cols, a
\* set that panics leaves every cell as it was, and an access that does not
\* panic reads or writes cell (row, col) and no other cell.
C11_AccessIsBoundsChecked ==
    [][CellStep =>
          /\ OutOfRange => result'.panicked
          /\ result'.panicked => shapes' = shapes
          /\ (~result'.panicked /\ ~OutOfRange /\ result'.op = "get") =>
                /\ result'.ret = CellMatrix.values[CellAt(CellMatrix, result'.row, result'.col)]
                /\ shapes' = shapes
          /\ (~result'.panicked /\ ~OutOfRange /\ result'.op = "set") =>
                shapes' = [shapes EXCEPT ![result'.shape].transformation.values[
                              CellAt(CellMatrix, result'.row, result'.col)] = result'.value]]_vars

\* C11, inside the matrix: an access with row < rows and col < cols does not
\* panic and reads or writes cell (row, col) only; an access whose
\* row * cols + col is not below rows * cols panics and changes nothing.
C11_AccessInsideValues ==
    [][CellStep =>
          /\ result'.panicked <=>
                result'.row * CellMatrix.cols + result'.col >= CellMatrix.rows * CellMatrix.cols
          /\ result'.panicked => shapes' = shapes
          /\ ~OutOfRange => ~result'.panicked
          /\ (~OutOfRange /\ result'.op = "get") =>
                /\ result'.ret = CellMatrix.values[CellAt(CellMatrix, result'.row, result'.col)]
                /\ shapes' = shapes
          /\ (~OutOfRange /\ result'.op = "set") =>
                shapes' = [shapes EXCEPT ![result'.shape].transformation.values[
                              CellAt(CellMatrix, result'.row, result'.col)] = result'.value]]_vars

\* a column outside a 2x3 matrix was read and a value came back
C11_Witness ==
    /\ result.op = "get"
    /\ ~result.panicked
    /\ shapes[result.shape].transformation.cols = 3
    /\ result.col >= 3

(***************************************************************************)
(* Claims about determinants                                               *)
(***************************************************************************)
\* the permutations of 0 .. n - 1
PermutationsOf(n) ==
    {p \in [0 .. n - 1 -> 0 .. n - 1] : \A i, j \in 0 .. n - 1 : p[i] = p[j] => i = j}

\* +1 for an even permutation, -1 for an odd one
Signature(p, n) ==
    LET inversions == {ij \in (0 .. n - 1) \X (0 .. n - 1) : ij[1] < ij[2] /\ p[ij[1]] > p[ij[2]]}
    IN  IF Cardinality(inversions) % 2 = 0 THEN One ELSE I(-1)

\* cell (row, col) of a matrix whose values are in row-major order
Cell(m, row, col) == m.values[row * m.cols + col + 1]

RECURSIVE PermutationProduct(_, _, _)
PermutationProduct(m, p, k) ==
    IF k = 0 THEN One ELSE FMul(PermutationProduct(m, p, k - 1), Cell(m, k - 1, p[k - 1]))

RECURSIVE SumOver(_, _, _)
SumOver(m, ps, n) ==
    IF ps = {} THEN Zero
    ELSE LET p == CHOOSE q \in ps : TRUE
         IN  FAdd(FMul(Signature(p, n), PermutationProduct(m, p, n)),
                  SumOver(m, ps \ {p}, n))

\* the permutation-sum determinant of a square matrix
StandardDeterminant(m) == SumOver(m, PermutationsOf(m.rows), m.rows)

\* m with row `row` and column `col` removed, the other cells in their order
Removed(m, row, col) ==
    LET keptRows == SelectSeq([k \in 1 .. m.rows |-> k - 1], LAMBDA r : r # row)
        keptCols == SelectSeq([k \in 1 .. m.cols |-> k - 1], LAMBDA c : c # col)
    IN  [rows |-> m.rows - 1,
         cols |-> m.cols - 1,
         values |-> [k \in 1 .. (m.rows - 1) * (m.cols - 1) |->
                        Cell(m, keptRows[((k - 1) \div (m.cols - 1)) + 1],
                                keptCols[((k - 1) % (m.cols - 1)) + 1])]]

CofactorSign(row, col) == IF (row + col) % 2 = 0 THEN One ELSE I(-1)

\* the square matrix the last call was made on
Receiver == shapes[result.shape].transformation

DeterminantOk ==
    result.op = "determinant" => FEq(result.ret, StandardDeterminant(Receiver))

SubmatrixOk ==
    result.op = "submatrix" => result.ret = Removed(Receiver, result.row, result.col)

MinorOk ==
    result.op = "minor" =>
        FEq(result.ret, StandardDeterminant(Removed(Receiver, result.row, result.col)))

CofactorOk ==
    result.op = "cofactor" =>
        FEq(result.ret,
            FMul(CofactorSign(result.row, result.col),
                 StandardDeterminant(Removed(Receiver, result.row, result.col))))

\* C12 (as claimed): on a square matrix of size 2, 3 or 4 determinant() is the
\* permutation-sum determinant, submatrix(r, c) is the matrix without row r and
\* column c, minor(r, c) is the determinant of that submatrix and cofactor(r, c)
\* is (-1)^(r + c) times the minor.
C12_DeterminantIsStandard ==
    DeterminantOk /\ SubmatrixOk /\ MinorOk /\ CofactorOk

\* C12, but for the minors of a 2x2 matrix: the same, minor and cofactor asked
\* only of a matrix of size 3 or 4 (the determinant of a 1x1 submatrix comes out
\* as 0 whatever its cell holds).
C12_DeterminantIsStandardFrom3 ==
    /\ DeterminantOk
    /\ SubmatrixOk
    /\ result.op \in {"minor", "cofactor"} =>
          IF Receiver.rows >= 3 THEN MinorOk /\ CofactorOk ELSE IsZero(result.ret)

\* the determinant of the 4x4 matrix of the tests was taken: -4071
C12_Witness ==
    /\ result.op = "determinant"
    /\ Receiver = Determinant4
    /\ result.ret = I(-4071)

(***************************************************************************)
(* Claims about products                                                   *)
(***************************************************************************)
\* the sum over i of a[r][i] * b[i][c]
RECURSIVE RowByColumn(_, _, _, _, _)
RowByColumn(a, b, r, c, n) ==
    IF n = 0 THEN Zero
    ELSE FAdd(RowByColumn(a, b, r, c, n - 1), FMul(Cell(a, r, n - 1), Cell(b, n - 1, c)))

\* the components x, y, z, w of a tuple, by position
Component(t, c) == << t.x, t.y, t.z, t.w >>[c + 1]

\* the sum over c of m[r][c] * t[c]
RECURSIVE RowByTuple(_, _, _, _)
RowByTuple(m, t, r, n) ==
    IF n = 0 THEN Zero
    ELSE FAdd(RowByTuple(m, t, r, n - 1), FMul(Cell(m, r, n - 1), Component(t, n - 1)))

\* C13: cell (r, c) of A * B is the sum over i of A[r][i] * B[i][c] for square
\* A and B of one size; component r of M * t is the sum over c of
\* M[r][c] * t[c]; M * identity == M for a 4x4 M.
C13_ProductIsRowByColumn ==
    /\ result.op = "mul" =>
          LET a == shapes[1].transformation
              b == shapes[2].transformation
          IN  /\ result.ret.rows = a.rows
              /\ result.ret.cols = a.cols
              /\ Len(result.ret.values) = a.rows * a.cols
              /\ \A r \in 0 .. a.rows - 1 : \A c \in 0 .. a.cols - 1 :
                    Cell(result.ret, r, c) = RowByColumn(a, b, r, c, a.rows)
    /\ result.op = "mul_tuple" =>
          \A r \in 0 .. 3 :
              Component(result.ret, r) =
                  RowByTuple(shapes[result.shape].transformation, result.t, r, 4)
    /\ result.op = "mul_identity" =>
          /\ MatrixEq(result.ret, shapes[result.shape].transformation)
          /\ result.ret = shapes[result.shape].transformation

\* the product of the two matrices of test_multiplication was taken
C13_Witness ==
    /\ result.op = "mul"
    /\ shapes[1].transformation = ProductA
    /\ shapes[2].transformation = ProductB
    /\ result.ret = M4(<< 20, 22, 50, 48, 44, 54, 114, 108, 40, 58, 110, 102,
                           16, 26, 46, 42 >>)

(***************************************************************************)
(* Claims about chained transforms                                         *)
(***************************************************************************)
\* C14: (C * B * A) * p equals C * (B * (A * p)) - the transform applied first
\* is the rightmost factor - whether a transform is applied as &m * p or by the
\* fluent method of the point; p.rotate_x(r).scale(s).translate(t) is
\* translation(t) * scaling(s) * rotation_x(r) * p.
C14_ChainAppliesRightmostFirst ==
    (result.op = "chain" /\ Len(result.applied) > 0) =>
        /\ TupleEq(result.product, result.steps)
        /\ TupleExactEq(result.product, result.steps)
        /\ Len(result.applied) = 3 =>
              TupleExactEq(result.steps,
                  MatrixMulPoint(MatrixMul(MatrixMul(result.applied[3], result.applied[2]),
                                           result.applied[1]), result.p))

\* the chain of the test: (1, 0, 1) turned, scaled and moved to (15, 0, 7)
C14_Witness ==
    /\ result.op = "chain"
    /\ result.p = P3(1, 0, 1)
    /\ result.applied = << rotation_x("PI/2"), scaling(I(5), I(5), I(5)),
                           translation(I(10), I(5), I(7)) >>
    /\ TupleExactEq(result.steps, P3(15, 0, 7))

(***************************************************************************)
(* Claims about transposes                                                 *)
(***************************************************************************)
\* C15: for a matrix M, square or not, transpose(transpose(M)) == M, cell (c, r)
\* of transpose(M) is cell (r, c) of M, and the transpose of the identity matrix
\* is the identity matrix.
C15_TransposeSwapsCells ==
    result.op = "transpose" =>
        LET m == shapes[result.shape].transformation
        IN  /\ MatrixEq(result.twice, m)
            /\ result.twice = m
            /\ result.ret.rows = m.cols
            /\ result.ret.cols = m.rows
            /\ Len(result.ret.values) = m.rows * m.cols
            /\ \A r \in 0 .. m.rows - 1 : \A c \in 0 .. m.cols - 1 :
                  Cell(result.ret, c, r) = Cell(m, r, c)
            /\ m = identity_matrix =>
                  (result.ret = identity_matrix /\ MatrixEq(result.ret, identity_matrix))

\* a 2x3 matrix one of whose cells was set was transposed
C15_Witness ==
    /\ result.op = "transpose"
    /\ shapes[result.shape].transformation.rows = 2
    /\ shapes[result.shape].transformation.cols = 3
    /\ shapes[result.shape].transformation # Wide
    /\ result.ret.rows = 3

(***************************************************************************)
(* Claims about Ray::transform                                             *)
(***************************************************************************)
\* the translation matrices and the scaling matrices among RayMatrices, by
\* their cells
IsTranslation(m) ==
    /\ m.rows = 4 /\ m.cols = 4
    /\ \A r \in 0 .. 3 : \A c \in 0 .. 2 : Cell(m, r, c) = (IF r = c THEN One ELSE Zero)
    /\ Cell(m, 3, 3) = One

IsScaling(m) ==
    /\ m.rows = 4 /\ m.cols = 4
    /\ \A r \in 0 .. 3 : \A c \in 0 .. 3 : r # c => Cell(m, r, c) = Zero
    /\ Cell(m, 3, 3) = One

\* C16: Ray::transform(M) returns the ray whose origin is M * origin and whose
\* direction is M * direction with w = 0: a translation shifts the origin and
\* leaves the direction, a scaling scales the direction and does not normalise
\* it; and translation(x, y, z) * v == v for a vector v.
C16_TransformMapsOriginAndDirection ==
    /\ result.op = "transform" =>
          LET m == shapes[result.shape].transformation
              o == result.ray.origin
              d == result.ray.direction
              ro == result.ret.origin
              rd == result.ret.direction
          IN  /\ \A r \in 0 .. 3 : Component(ro, r) = RowByTuple(m, o, r, 4)
              /\ \A r \in 0 .. 2 : Component(rd, r) = RowByTuple(m, d, r, 4)
              /\ rd.w = Zero
              /\ IsTranslation(m) =>
                    /\ TupleExactEq(rd, d)
                    /\ FEq(ro.x, FAdd(o.x, Cell(m, 0, 3)))
                    /\ FEq(ro.y, FAdd(o.y, Cell(m, 1, 3)))
                    /\ FEq(ro.z, FAdd(o.z, Cell(m, 2, 3)))
                    /\ FEq(ro.w, One)
              /\ IsScaling(m) =>
                    /\ FEq(rd.x, FMul(d.x, Cell(m, 0, 0)))
                    /\ FEq(rd.y, FMul(d.y, Cell(m, 1, 1)))
                    /\ FEq(rd.z, FMul(d.z, Cell(m, 2, 2)))
    /\ result.op = "translate_vector" =>
          /\ TupleEq(result.ret, result.v)
          /\ TupleExactEq(result.ret, result.v)

\* the ray of the tests was scaled by (2, 3, 4): its direction is (0, 3, 0)
C16_Witness ==
    /\ result.op = "transform"
    /\ result.ray = TestRay
    /\ shapes[result.shape].transformation = scaling(I(2), I(3), I(4))
    /\ TupleExactEq(result.ret.origin, P3(2, 6, 12))
    /\ TupleExactEq(result.ret.direction, V3(0, 3, 0))

(***************************************************************************)
(* Claims about the arithmetic of points and vectors                       *)
(***************************************************************************)
Sum3(a, b, w) == [x |-> FAdd(a.x, b.x), y |-> FAdd(a.y, b.y), z |-> FAdd(a.z, b.z), w |-> w]

Difference3(a, b, w) ==
    [x |-> FSub(a.x, b.x), y |-> FSub(a.y, b.y), z |-> FSub(a.z, b.z), w |-> w]

\* C17: a point plus a vector is a point (w = 1), the sum and the difference of
\* two vectors are vectors (w = 0), the difference of two points is a vector
\* (w = 0), a point minus a vector is a point (w = 1), each with x, y, z
\* computed componentwise; and (p + v) - v is a point equal to p.
C17_PointVectorArithmetic ==
    /\ result.op = "point_add_vector" => result.ret = Sum3(result.a, result.b, One)
    /\ result.op = "vector_add" => result.ret = Sum3(result.a, result.b, Zero)
    /\ result.op = "vector_sub" => result.ret = Difference3(result.a, result.b, Zero)
    /\ result.op = "point_sub_point" => result.ret = Difference3(result.a, result.b, Zero)
    /\ result.op = "point_sub_vector" => result.ret = Difference3(result.a, result.b, One)
    /\ result.op = "add_then_sub" =>
          /\ is_point(result.ret)
          /\ result.ret.w = One
          /\ TupleEq(result.ret, result.a)

\* test_tuple_add: (3, -2, 5) + (-2, 3, 1) is the point (1, 1, 6)
C17_Witness ==
    /\ result.op = "point_add_vector"
    /\ result.a = P3(3, -2, 5)
    /\ result.b = V3(-2, 3, 1)
    /\ result.ret = P3(1, 1, 6)

\* a round trip through a vector with fractional components
C17_WitnessRoundTrip ==
    /\ result.op = "add_then_sub"
    /\ result.a = PointNew(Half, NegZero, I(-4))
    /\ result.b = VectorNew(Q(-1, 3), Half, Two)


(***************************************************************************)
(* Claims about the w of the tuples the kernel produces                    *)
(***************************************************************************)
\* C18, as claimed: every tuple an operation of the kernel produces from points
\* (w = 1) and vectors (w = 0) has w equal to 1 or 0 (within EPSILON).
C18_WIsOneOrZero ==
    result.op # "new" => (is_point(result.ret) \/ is_vector(result.ret))

\* C18, for the operations of Point and Vector: the sum and the differences of
\* C17, subtract_origin, a vector times a scalar, normalize, cross, reflect
\* and the product of a matrix and a vector.
C18_PointVectorOperationsKeepW ==
    result.op \in { "point_add_vector", "point_sub_point", "point_sub_vector", "vector_add",
                    "vector_sub", "subtract_origin", "vector_mul", "normalize", "cross",
                    "reflect", "matrix_mul_vector" }
        => (is_point(result.ret) \/ is_vector(result.ret))

\* the sum of the tuples of two points has w = 2
C18_Witness ==
    /\ result.op = "tuple_add"
    /\ is_point(result.a)
    /\ is_point(result.b)
    /\ result.ret.w = Two

\* the product of a matrix whose last row is not (0, 0, 0, 1) and a point is a
\* Point whose w is not 1
C18_WitnessMatrix ==
    /\ result.op = "matrix_mul_point"
    /\ result.a = ProductA
    /\ is_point(result.b)
    /\ ~ is_point(result.ret)


(***************************************************************************)
(* Claims about Vector::normalize                                          *)
(***************************************************************************)
FiniteTuple(t) == IsFinite(t.x) /\ IsFinite(t.y) /\ IsFinite(t.z) /\ IsFinite(t.w)

\* x * x + y * y + z * z, the square of the length of a vector
SquaredLength(v) == FAdd(FAdd(FMul(v.x, v.x), FMul(v.y, v.y)), FMul(v.z, v.z))

\* C19, as claimed: normalize fails when the magnitude of the vector is 0, and it
\* never returns a vector with a NaN or infinite component.
C19_NormalizeRejectsZeroMagnitude ==
    result.op = "normalize" =>
        /\ IsZero(SquaredLength(result.a)) => result.panicked
        /\ ~ result.panicked => FiniteTuple(result.ret)

\* C19, for a vector of non-zero magnitude: the result is a vector (w = 0) of
\* finite components; where the square of the length is the square of a
\* fraction, so that the square root is computed exactly, its magnitude is 1.
C19_NormalizeOfNonZero ==
    (result.op = "normalize" /\ ~ IsZero(SquaredLength(result.a))) =>
        /\ ~ result.panicked
        /\ FiniteTuple(result.ret)
        /\ result.ret.w = Zero
        /\ (IsSquare(SquaredLength(result.a).n) /\ IsSquare(SquaredLength(result.a).d))
              => approx_equal(magnitude(result.ret), One)

\* the zero vector is normalized to (NaN, NaN, NaN)
C19_Witness ==
    /\ result.op = "normalize"
    /\ result.a = V3(0, 0, 0)
    /\ ~ result.panicked
    /\ IsNaN(result.ret.x) /\ IsNaN(result.ret.y) /\ IsNaN(result.ret.z)

\* test_tuple_normalize: (4, 0, 0) is normalized to (1, 0, 0)
C19_WitnessNonZero ==
    /\ result.op = "normalize"
    /\ result.a = V3(4, 0, 0)
    /\ result.ret = V3(1, 0, 0)


(***************************************************************************)
(* Claims about Vector::reflect                                            *)
(***************************************************************************)
\* C20: for vectors v and n, v.reflect(n) is v - n * 2 * dot(v, n), a vector
\* with w = 0; reflecting (1, -1, 0) about the normal (0, 1, 0) yields (1, 1, 0).
C20_ReflectIsVMinusTwiceProjection ==
    result.op = "reflect" =>
        /\ result.ret = Reflect3(result.a, result.b)
        /\ result.ret.w = Zero
        /\ is_vector(result.ret)
        /\ (result.a = V3(1, -1, 0) /\ result.b = V3(0, 1, 0)) => result.ret = V3(1, 1, 0)

\* test_reflect_45
C20_Witness ==
    /\ result.op = "reflect"
    /\ result.a = V3(1, -1, 0)
    /\ result.b = V3(0, 1, 0)
    /\ result.ret = V3(1, 1, 0)


(***************************************************************************)
(* Claims about the identity matrix                                        *)
(***************************************************************************)
\* the 4x4 identity, written out
Identity4 ==
    [rows |-> 4, cols |-> 4,
     values |-> [k \in 1 .. 16 |-> IF (k - 1) \div 4 = (k - 1) % 4 THEN One ELSE Zero]]

\* C21: after any sequence of Matrix::translation, Matrix::scaling, Sphere::new
\* and mutations of the matrices they return, identity_matrix() returns the 4x4
\* identity: the matrix of the cell is never changed, and the transformation
\* of a new sphere is the identity.
C21_IdentityIsNeverChanged ==
    /\ heap.cell # 0 => heap.objects[heap.cell] = Identity4
    /\ result.op = "identity_matrix" =>
          (result.ret = heap.cell /\ heap.objects[result.ret] = Identity4)
    /\ result.op = "sphere_new" =>
          (result.ret # heap.cell /\ heap.objects[result.ret] = Identity4)
    /\ result.op \in { "translation", "scaling" } => result.ret # heap.cell

\* identity_matrix() is called while a translation made from it, and changed
\* since in its cell (0, 0), is alive
C21_Witness ==
    /\ result.op = "identity_matrix"
    /\ \E ref \in Owned :
          /\ get(heap.objects[ref], 0, 3) = I(5)
          /\ get(heap.objects[ref], 0, 0) = I(9)


(***************************************************************************)
(* Claims about the parallel driver                                        *)
(***************************************************************************)
\* the pixels written so far
Written == { driver.writes[k] : k \in 1 .. Len(driver.writes) }

\* C22: whatever the order the per-pixel tasks run and complete in, the final
\* canvas is the one the sequential driver produces; each pixel is written at
\* most once, with the colour computed from its own ray, and a pixel whose ray
\* has no hit keeps the black of the new canvas.
C22_ParallelEqualsSequential ==
    driver.phase # "off" =>
        /\ driver.phase = "done" => canvas = SequentialMain
        /\ Cardinality(Written) = Len(driver.writes)
        /\ \A x \in Columns, y \in Columns :
              LET px == generate_pixel(PixelRay(x, y), DriverShape, DriverLight)
              IN  /\ << x, y >> \in Written =>
                        (px.some /\ pixel_at(canvas, x, y) = Ok(px.v))
                  /\ << x, y >> \notin Written =>
                        pixel_at(canvas, x, y) = Ok(ColorNew(Zero, Zero, Zero))
                  /\ (driver.phase = "done" /\ px.some) => << x, y >> \in Written

\* the pixel map has ended; the tasks of some row finished from the last
\* column to the first; pixels with a hit and pixels without one
C22_Witness ==
    /\ driver.phase = "done"
    /\ << 1, 1 >> \in Written
    /\ << 0, 0 >> \notin Written
    /\ Len(driver.writes) = 9

\* the task of the last column is done while the one of the first has not started
C22_WitnessOutOfOrder ==
    /\ driver.phase = "parallel"
    /\ driver.task[CanvasPixels - 1] = "done"
    /\ driver.task[0] = "todo"
    /\ driver.task[1] = "running"


(***************************************************************************)
(* Claims about the canvas                                                 *)
(***************************************************************************)
InCanvas(c, x, y) == x < c.width /\ y < c.height

\* the coordinates of the pixels of a canvas
PixelsOf(c) == { p \in (0 .. c.width - 1) \X (0 .. c.height - 1) : TRUE }

\* the pixel of column x in row y, counted in the Vec row after row
PixelOf(c, x, y) == c.pixels[y * c.width + x + 1]

\* C23: every pixel of a new canvas is black; after write_pixel(x, y, c) with
\* x < width and y < height, pixel_at(x, y) is c and every other pixel is
\* unchanged; so after in-range writes only, pixel_at(x, y) is the colour of the
\* last write to (x, y), or black if there was none.
C23_PixelHoldsLastWrite ==
    /\ [](result.op = "canvas_new" =>
            /\ Len(canvas.pixels) = canvas.width * canvas.height
            /\ \A p \in PixelsOf(canvas) : PixelOf(canvas, p[1], p[2]) = Black)
    /\ [][(result'.op = "write_pixel" /\ InCanvas(canvas, result'.x, result'.y)) =>
            /\ ~result'.panicked
            /\ pixel_at(canvas', result'.x, result'.y) = Ok(result'.color)
            /\ \A p \in PixelsOf(canvas) :
                  p # << result'.x, result'.y >> =>
                      PixelOf(canvas', p[1], p[2]) = PixelOf(canvas, p[1], p[2])]_vars
    /\ [](~written.strayed =>
            \A p \in PixelsOf(canvas) :
                pixel_at(canvas, p[1], p[2]) =
                    Ok(IF p \in DOMAIN written.last THEN written.last[p] ELSE Black))
    /\ []((result.op = "pixel_at" /\ ~written.strayed
           /\ InCanvas(canvas, result.x, result.y)) =>
            result.ret = Some(IF << result.x, result.y >> \in DOMAIN written.last
                              THEN written.last[<< result.x, result.y >>] ELSE Black))

\* two pixels of a 2x2 canvas written in range, then one of them read
C23_Witness ==
    /\ result.op = "pixel_at"
    /\ ~written.strayed
    /\ canvas.width = 2 /\ canvas.height = 2
    /\ result.x = 1 /\ result.y = 1
    /\ result.ret = Some(ColorNew(Zero, Half, Zero))
    /\ << 0, 1 >> \in DOMAIN written.last
    /\ written.last[<< 0, 1 >>] = ColorNew(Q(3, 2), Zero, Zero)
    /\ PixelOf(canvas, 0, 0) = Black


(***************************************************************************)
(* Claims about write_ppm                                                  *)
(***************************************************************************)
\* the pieces of s between the occurrences of sep
RECURSIVE SplitFrom(_, _, _, _)
SplitFrom(s, sep, k, piece) ==
    IF k > Len(s) THEN << piece >>
    ELSE IF s[k] = sep THEN << piece >> \o SplitFrom(s, sep, k + 1, << >>)
    ELSE SplitFrom(s, sep, k + 1, Append(piece, s[k]))

SplitOn(s, sep) == SplitFrom(s, sep, 1, << >>)

\* the lines of a text that ends with a newline
LinesOf(text) == SplitOn(SubSeq(text, 1, Len(text) - 1), "\n")

IsNumeral(token) == token # << >> /\ \A k \in 1 .. Len(token) : token[k] \in Range(DigitChars)

RECURSIVE NumeralValue(_)
NumeralValue(token) ==
    IF token = << >> THEN 0
    ELSE 10 * NumeralValue(SubSeq(token, 1, Len(token) - 1))
         + (CHOOSE d \in 0 .. 9 : DigitChars[d + 1] = token[Len(token)])

\* the numerals of the lines from line k on, one after the other
RECURSIVE TokensFrom(_, _)
TokensFrom(lines, k) ==
    IF k > Len(lines) THEN << >> ELSE SplitOn(lines[k], " ") \o TokensFrom(lines, k + 1)

\* the channels of a canvas, row after row, each pixel as red, green, blue
Channels(c) ==
    [k \in 1 .. 3 * c.width * c.height |->
        LET pixel == c.pixels[((k - 1) \div 3) + 1]
        IN  CASE (k - 1) % 3 = 0 -> pixel.r
              [] (k - 1) % 3 = 1 -> pixel.g
              [] (k - 1) % 3 = 2 -> pixel.b]

\* how many numerals the lines 4 .. k hold
RECURSIVE NumeralsUpTo(_, _)
NumeralsUpTo(lines, k) ==
    IF k < 4 THEN 0 ELSE NumeralsUpTo(lines, k - 1) + Len(SplitOn(lines[k], " "))

\* C24: write_ppm emits the lines P3, <width> <height>, 255, then row after row
\* the 3 * width channel values of the row in column order, separated by single
\* spaces; no line is longer than 70 characters, no value is split across
\* lines, each row starts on a new line, and the output ends with a newline.
C24_PpmLayout ==
    result.op = "write_ppm" =>
        /\ result.ret[Len(result.ret)] = "\n"
        /\ \E lines \in { LinesOf(result.ret) } :
              /\ Len(lines) >= 3
              /\ lines[1] = << "P", "3" >>
              /\ lines[2] = ToDigits(canvas.width) \o << " " >> \o ToDigits(canvas.height)
              /\ lines[3] = << "2", "5", "5" >>
              /\ \A k \in 1 .. Len(lines) : Len(lines[k]) <= 70
              /\ \E tokens \in { TokensFrom(lines, 4) } :
                    /\ \A k \in 1 .. Len(tokens) : IsNumeral(tokens[k])
                    /\ [k \in 1 .. Len(tokens) |-> NumeralValue(tokens[k])]
                          = [k \in 1 .. 3 * canvas.width * canvas.height |->
                                clamp_int(Channels(canvas)[k])]
              /\ \A row \in 1 .. canvas.height :
                    canvas.width > 0 =>
                        \E k \in 3 .. Len(lines) :
                            NumeralsUpTo(lines, k) = 3 * canvas.width * (row - 1)

\* test_ppm_line_wrap on one row of six pixels: 17 values on the first line of
\* the row, the 18th on the next
C24_Witness ==
    /\ result.op = "write_ppm"
    /\ canvas.width = 6
    /\ \A k \in 1 .. 6 : canvas.pixels[k] = ColorNew(One, Q(4, 5), Q(3, 5))
    /\ \E lines \in { LinesOf(result.ret) } :
          /\ Len(lines) = 5
          /\ Len(lines[4]) = 67
          /\ lines[5] = << "1", "5", "3" >>


\* round(255 * c) kept within 0 .. 255, c finite
RoundedChannel(c) ==
    IF c.n <= 0 THEN 0
    ELSE IF c.n >= c.d THEN 255
    ELSE (2 * 255 * c.n + c.d) \div (2 * c.d)

\* C25: every channel value c is written as the integer round(255 * c) kept
\* within 0 .. 255: a value above 1 gives 255, a negative one 0, and 0.5 gives
\* 128; write_ppm does not modify the canvas.
C25_ChannelsRoundedAndClamped ==
    /\ [](result.op = "write_ppm" =>
            \E tokens \in { TokensFrom(LinesOf(result.ret), 4) } :
                /\ Len(tokens) = 3 * canvas.width * canvas.height
                /\ \A k \in 1 .. Len(tokens) :
                      \E c \in { Channels(canvas)[k] } :
                          /\ NumeralValue(tokens[k]) = RoundedChannel(c)
                          /\ c = Q(3, 2) => tokens[k] = << "2", "5", "5" >>
                          /\ c = Q(-1, 2) => tokens[k] = << "0" >>
                          /\ c = Half => tokens[k] = << "1", "2", "8" >>)
    /\ [][result'.op = "write_ppm" => canvas' = canvas]_vars

\* the channels 1.5, 0.5 and -0.5 of the first pixel of a 2x2 canvas are written
\* as 255 128 0
C25_Witness ==
    /\ result.op = "write_ppm"
    /\ canvas.width = 2 /\ canvas.height = 2
    /\ canvas.pixels[1] = ColorNew(Q(3, 2), Half, Q(-1, 2))
    /\ LinesOf(result.ret)[4] =
          << "2", "5", "5", " ", "1", "2", "8", " ", "0", " ", "0", " ", "0", " ", "0" >>


(***************************************************************************)
(* Claims about the order and the contents of Intersections                *)
(***************************************************************************)
\* the first record iterating yields has a t no record added is below
FirstIsMinimal ==
    \A k \in 1 .. Len(added) : FLe(into_iter(items)[1].t, added[k].t)

\* C26, as claimed: after a non-empty sequence of add calls the first record
\* yielded by iterating has the minimal t of the records added, and whenever
\* that minimal t is >= 0, hit() returns a record with it.
C26_FirstIsMinimalAndHit ==
    added # << >> =>
        /\ FirstIsMinimal
        /\ (result.op = "hit" /\ FGe(into_iter(items)[1].t, Zero)) =>
              (result.ret.some /\ FEq(result.ret.v.t, into_iter(items)[1].t))

\* C26, for a minimal t with a clear sign bit: the first record has the minimal
\* t, and when that t is not -0.0 and not negative, hit() returns that record.
C26_FirstIsMinimalAndHitIfSignPositive ==
    added # << >> =>
        /\ FirstIsMinimal
        /\ (result.op = "hit" /\ IsSignPositive(into_iter(items)[1].t)) =>
              result.ret = Some(into_iter(items)[1])

\* the minimal t is -0.0, which is >= 0: hit() passes over it and returns the
\* record with t = 1
C26_Witness ==
    /\ result.op = "hit"
    /\ Len(added) = 2
    /\ into_iter(items)[1].t = NegZero
    /\ result.ret.some
    /\ result.ret.v.t = I(1)


\* C27: after n add calls on a new collection len() is n - records with a
\* negative t and records with equal t are all kept -, and hit() and len() do
\* not change the contents, so hit() called again with no add in between
\* returns the same record.
C27_AddKeepsEveryRecord ==
    /\ [](/\ len(items) = Len(added)
          /\ SameBag(items, added)
          /\ result.op = "len" => result.ret = Len(added))
    /\ [][result'.op \in { "hit", "len" } => items' = items]_vars
    /\ [][(result.op = "hit" /\ result'.op = "hit") => result'.ret = result.ret]_vars

\* len() is 4 after four add calls, two of them with the same negative t and two
\* with the same t and shape
C27_Witness ==
    /\ result.op = "len"
    /\ result.ret = 4
    /\ Cardinality({ k \in 1 .. 4 : added[k].t = I(-2) }) = 2
    /\ Cardinality({ k \in 1 .. 4 : added[k] = IntersectionNew(I(1), 1) }) = 2


(***************************************************************************)
(* Claims about the w of a Vector and Vector::dot                          *)
(***************************************************************************)
\* C28, as claimed: every Vector obtainable through the public API has w = 0,
\* and so Vector::dot always returns x1 * x2 + y1 * y2 + z1 * z2.
C28_VectorsHaveZeroW ==
    /\ HasVector => result.ret.w = Zero
    /\ result.op = "dot" => result.ret = Dot3(result.a, result.b)

\* C28, for the operations the claim lists, with finite scalars: Vector::new,
\* From<Tuple>, the sums and differences, Vector * scalar, subtract_origin,
\* normalize, cross, reflect, Matrix * Vector and translate, scale, shear and
\* rotate return a Vector with w = 0, and dot of such vectors is the sum of the
\* three products.
C28_ListedOperationsGiveZeroW ==
    ("plain" \in DOMAIN result /\ result.plain) =>
        /\ HasVector => result.ret.w = Zero
        /\ result.op = "dot" => result.ret = Dot3(result.a, result.b)

\* (1, 2, 3) was assigned the tuple (1, 0, 0, -4) through DerefMut; its dot with
\* (1, 1, 1) is 1 - 4 + 0 = -3, where the sum of the three products is 1
C28_Witness ==
    /\ result.op = "dot"
    /\ result.a = TupleNew(One, Zero, Zero, I(-4))
    /\ result.b = V3(1, 1, 1)
    /\ result.ret = I(-3)
    /\ Dot3(result.a, result.b) = One


(***************************************************************************)
(* Claims about Canvas::plot_point and the bounds of the canvas            *)
(***************************************************************************)
\* the point's coordinate c rounds to an integer at most one away from p
NearRounded(c, p) ==
    LET r == FRound(c)
    IN  IsFinite(r) /\ FLe(I(p - 1), r) /\ FLe(r, I(p + 1))

\* the rounded coordinate c lies more than one pixel outside 0..size - 1
FarOutside(c, size) ==
    LET r == FRound(c)
    IN  ~IsNaN(r) /\ (FLt(r, I(-1)) \/ FLt(I(size), r))

\* C29, as claimed: on a canvas of width >= 1 and height >= 1 plot_point never
\* fails, writes only pixels inside the canvas and within one pixel of the
\* point's rounded (x, y), and changes no pixel for a point whose rounded
\* coordinates lie more than one pixel outside the canvas on any side.
C29_PlotPointNearAndInside ==
    result.op = "plot_point" =>
        /\ ~result.panicked
        /\ \A p \in result.wrote :
              /\ p[1] >= 0 /\ p[1] < canvas.width
              /\ p[2] >= 0 /\ p[2] < canvas.height
              /\ NearRounded(result.point.x, p[1])
              /\ NearRounded(result.point.y, p[2])
        /\ (FarOutside(result.point.x, canvas.width) \/ FarOutside(result.point.y, canvas.height))
              => canvas = result.before

\* C29, the part that holds: every pixel plot_point writes is inside the
\* canvas, and for a point whose rounded coordinates are finite and not
\* negative the call does not fail and the rest of the claim holds.
C29_PlotPointOfNonNegative ==
    result.op = "plot_point" =>
        /\ \A p \in result.wrote :
              /\ p[1] >= 0 /\ p[1] < canvas.width
              /\ p[2] >= 0 /\ p[2] < canvas.height
        /\ (\A c \in { FRound(result.point.x), FRound(result.point.y) } :
                IsFinite(c) /\ ~FLt(c, Zero))
              => /\ ~result.panicked
                 /\ \A p \in result.wrote :
                       /\ NearRounded(result.point.x, p[1])
                       /\ NearRounded(result.point.y, p[2])
                 /\ (FarOutside(result.point.x, canvas.width)
                       \/ FarOutside(result.point.y, canvas.height))
                       => canvas = result.before

\* the point (-5, 3, 0) lies five pixels to the left of a 4 x 3 canvas, and
\* plot_point wrote the pixels (0, 2) and (1, 2)
C29_Witness ==
    /\ result.op = "plot_point"
    /\ ~result.panicked
    /\ canvas.width = 4 /\ canvas.height = 3
    /\ result.point = PointNew(I(-5), I(3), Zero)
    /\ result.before = CanvasNew(4, 3)
    /\ result.wrote = { << 0, 2 >>, << 1, 2 >> }
    /\ pixel_at(canvas, 0, 2) = Ok(PlotColor)
    /\ pixel_at(canvas, 1, 2) = Ok(PlotColor)

\* the point (inf, 0, 0): where overflow is checked, plot_point panics
C29_WitnessOverflow ==
    /\ result.op = "plot_point"
    /\ result.panicked
    /\ result.point = PointNew(Inf, Zero, Zero)


\* C30, as claimed: write_pixel(x, y, c) and pixel_at(x, y) panic whenever
\* x >= width or y >= height, so a call with an out-of-range coordinate never
\* reads or changes the pixel of a different in-range coordinate.
C30_OutOfRangePanics ==
    (result.op \in { "write_pixel", "pixel_at" } /\ ~InCanvas(canvas, result.x, result.y))
        => result.panicked

\* C30, the part that holds: the two calls panic exactly when y * width + x is
\* not an index of the Vec, which covers every y >= height.
C30_PanicsOutsideTheVec ==
    result.op \in { "write_pixel", "pixel_at" } =>
        /\ result.panicked <=> result.y * canvas.width + result.x >= canvas.width * canvas.height
        /\ result.y >= canvas.height => result.panicked

\* write_pixel(2, 0, c) on a 2x2 canvas returned, and the pixel (0, 1), which
\* no call had named, holds c
C30_Witness ==
    /\ result.op = "write_pixel"
    /\ ~result.panicked
    /\ canvas.width = 2 /\ canvas.height = 2
    /\ result.x = 2 /\ result.y = 0
    /\ << 0, 1 >> \notin DOMAIN written.last
    /\ pixel_at(canvas, 0, 1) = Ok(result.color)
    /\ result.color # Black

\* pixel_at(2, 0) on a 2x2 canvas returned the colour written to (0, 1)
C30_WitnessRead ==
    /\ result.op = "pixel_at"
    /\ ~result.panicked
    /\ canvas.width = 2 /\ canvas.height = 2
    /\ result.x = 2 /\ result.y = 0
    /\ << 0, 1 >> \in DOMAIN written.last
    /\ << 2, 0 >> \notin DOMAIN written.last
    /\ result.ret = Some(written.last[<< 0, 1 >>])
    /\ result.ret # Some(Black)

====
